---- MODULE Spec2Model ----
(***************************************************************************)
(* Model of the artifact compression / archival pipeline of                *)
(* buildbear_x_action (CompressionUtils, LZMA revision):                   *)
(* compressDirectory -> getAllFiles -> compressFile* -> createFinalArchive *)
(* -> validateCompressedArchive, and the paired decompressArchive.         *)
(*                                                                         *)
(* Data representation.  A Buffer is a sequence of byte tokens, a JS       *)
(* string a sequence of code-point tokens.  ASCII bytes / characters are   *)
(* one-character strings; bytes >= 0x80 are "x80", "x81", "xEF", "xBF",    *)
(* "xBD"; the replacement character U+FFFD is "uFFFD".  The UTF-8 decoder  *)
(* below is exact on that alphabet (lone continuation bytes and the        *)
(* complete sequence EF BF BD).                                            *)
(***************************************************************************)
EXTENDS Integers, Sequences, FiniteSets, TLC

\* ------------------------------------------------------------------------
\* Bounds of the model
\* ------------------------------------------------------------------------
MaxFiles == 3       \* at most this many regular files under sourceRoot
MaxFaults == 1      \* at most this many injected I/O or primitive failures
MaxLenDelta == 1    \* a dictionary payload is within this many bytes of the plain one
MaxValidations == 2 \* at most this many calls of validateCompressedArchive per archive
MaxBuilds == 2      \* at most this many compressDirectory calls on one instance
MaxEnvVars == 3     \* at most this many variables set in process.env
MaxNetworks == 2    \* at most this many networks in one pipeline call
MaxStreamLen == 2   \* at most this many bytes in a file handed to the gzip compressFile
MaxRetries == 3     \* the largest maxRetries option handed to withRetry

\* ------------------------------------------------------------------------
\* Characters, bytes, strings
\* ------------------------------------------------------------------------
LF == "\n"
CR == "\r"
SP == " "
TAB == "\t"
FFFD == "uFFFD"

HighBytes == {"x80", "x81", "xEF", "xBF", "xBD"}
SpaceCh == {SP, TAB, LF, CR}
LineTerm == {LF, CR}
WordCh == {"a", "b", "c", "d", "e", "f", "g", "h", "i", "j", "k", "l", "m",
           "n", "o", "p", "q", "r", "s", "t", "u", "v", "w", "x", "y", "z",
           "A", "0", "1", "_"}

StrV(s) == [t |-> "string", v |-> s]
BufV(b) == [t |-> "buffer", v |-> b]

\* Position just after the maximal run of characters of class C starting at i.
Run(s, i, C) ==
  CHOOSE j \in i..(Len(s) + 1) :
    /\ \A k \in i..(j - 1) : s[k] \in C
    /\ (j = Len(s) + 1 \/ s[j] \notin C)

\* The literal lit occurs in s at position i.
HasLit(s, i, lit) ==
  /\ i >= 1
  /\ i + Len(lit) - 1 <= Len(s)
  /\ \A k \in 1..Len(lit) : s[i + k - 1] = lit[k]

Range(s) == {s[k] : k \in 1..Len(s)}

Slice(s, a, b) == IF a > b THEN <<>> ELSE SubSeq(s, a, b)

\* Buffer.prototype.toString('utf8'): malformed bytes become U+FFFD.
RECURSIVE Utf8Decode(_)
Utf8Decode(b) ==
  IF \A k \in 1..Len(b) : b[k] \notin HighBytes THEN b   \* ASCII decodes to itself
  ELSE IF HasLit(b, 1, <<"xEF", "xBF", "xBD">>)
       THEN <<FFFD>> \o Utf8Decode(Slice(b, 4, Len(b)))
  ELSE IF b[1] \in HighBytes
       THEN <<FFFD>> \o Utf8Decode(Tail(b))
  ELSE <<b[1]>> \o Utf8Decode(Tail(b))

\* Buffer.from(string) / the UTF-8 encoding of a string.
RECURSIVE Utf8Encode(_)
Utf8Encode(s) ==
  IF \A k \in 1..Len(s) : s[k] # FFFD THEN s   \* ASCII encodes to itself
  ELSE (IF s[1] = FFFD THEN <<"xEF", "xBF", "xBD">> ELSE <<s[1]>>)
       \o Utf8Encode(Tail(s))

\* Bytes that a value contributes when handed to a byte-oriented primitive.
BytesOf(c) == IF c.t = "string" THEN Utf8Encode(c.v) ELSE c.v

\* ------------------------------------------------------------------------
\* Primitives: SHA-256, LZMA, base64
\* ------------------------------------------------------------------------
\* crypto sha256 digest: injective on byte sequences (collision resistance).
Sha256(bytes) == <<"sha256", bytes>>

\* calculateHash: a Buffer is first converted with toString().
calculateHash(content) ==
  Sha256(Utf8Encode(IF content.t = "string" THEN content.v
                    ELSE Utf8Decode(content.v)))

\* Size of the header of an LZMA-alone stream (5 property bytes, 8 size bytes).
LzmaHeaderLen == 13

\* Length of the output of a plain lzma.compress call: header plus payload.
NominalLength(data) == LzmaHeaderLen + Len(BytesOf(data))

\* lzma.compress: strings are encoded as UTF-8, buffers taken as bytes; n is
\* the length of the output this call produces.
lzmaCompress(data, n) == [lz |-> BytesOf(data), length |-> n, intact |-> TRUE]

\* A byte string that is not a well-formed LZMA stream.
Garbage == [lz |-> <<>>, length |-> 1, intact |-> FALSE]

\* Buffer.from(await lzmaDecompress(blob)); rejects when the stream is corrupt
\* (callers test blob.intact first).
lzmaDecompress(blob) == BufV(blob.lz)

ToBase64(blob) == <<"base64", blob>>
FromBase64(s) == s[2]

\* ------------------------------------------------------------------------
\* Paths
\* ------------------------------------------------------------------------
SourceDir == "src"
SubDir == "sub"
Paths == {"a.txt", "b.txt", "sub/c.txt", "7"}

\* path.join(dir, entry.name)
FullPath(rel) == <<SourceDir, rel>>

\* getRelativePath: strips the base directory prefix and one separator.
getRelativePath(filePath, baseDir) ==
  IF filePath[1] = baseDir THEN filePath[2] ELSE filePath

\* path.extname on the path universe.
extname(p) == IF p \in {"a.txt", "b.txt", "sub/c.txt"} THEN ".txt" ELSE ""

textExtensions ==
  {".js", ".ts", ".jsx", ".tsx", ".json", ".txt", ".md", ".yml", ".yaml",
   ".xml", ".html", ".css", ".scss", ".py", ".java", ".c", ".cpp", ".h",
   ".hpp", ".go", ".rs", ".rb", ".php", ".sql", ".sh", ".bash"}

isTextFile(p) == extname(p) \in textExtensions

\* A property key that is a canonical array index; such keys are enumerated
\* first (ascending) by Object.entries / JSON.stringify.
IntegerKeys == {"7"}
IntegerValue(k) == IF k = "7" THEN 7 ELSE 0

\* ------------------------------------------------------------------------
\* Text heuristics and normalisation (regular expressions spelled out)
\* ------------------------------------------------------------------------
Positions(s) == 1..Len(s)

\* /function\s+\w+\s*\(/ matched at position i; returns TRUE on a match.
\* Position after \s+\w+\s* read from position j, or 0 when \s+ or \w+ is empty.
AfterName2(s, j1, j2) == IF j2 > j1 THEN Run(s, j2, SpaceCh) ELSE 0
AfterName1(s, j, j1) == IF j1 > j THEN AfterName2(s, j1, Run(s, j1, WordCh)) ELSE 0
AfterName(s, j) == AfterName1(s, j, Run(s, j, SpaceCh))

FunctionHeadAt(s, i) ==
  /\ HasLit(s, i, <<"f", "u", "n", "c", "t", "i", "o", "n">>)
  /\ HasLit(s, AfterName(s, i + 8), <<"(">>)

\* /class\s+\w+/
ClassAt(s, i) ==
  /\ HasLit(s, i, <<"c", "l", "a", "s", "s">>)
  /\ AfterName(s, i + 5) > 0

\* /const\s+\w+\s*=/
ConstAt(s, i) ==
  /\ HasLit(s, i, <<"c", "o", "n", "s", "t">>)
  /\ HasLit(s, AfterName(s, i + 5), <<"=">>)

\* /import\s+.*from/  ('.' does not cross a line terminator)
ImportFromAt(s, i) ==
  /\ HasLit(s, i, <<"i", "m", "p", "o", "r", "t">>)
  /\ LET j1 == Run(s, i + 6, SpaceCh)
     IN  \E j \in (i + 7)..j1 : \E k \in j..Len(s) :
           /\ HasLit(s, k, <<"f", "r", "o", "m">>)
           /\ \A m \in j..(k - 1) : s[m] \notin LineTerm

\* /export\s+(default\s+)?/
ExportAt(s, i) ==
  /\ HasLit(s, i, <<"e", "x", "p", "o", "r", "t">>)
  /\ Run(s, i + 6, SpaceCh) > i + 6

isSourceCode(s) ==
  \E i \in Positions(s) :
    \/ FunctionHeadAt(s, i)
    \/ ClassAt(s, i)
    \/ ConstAt(s, i)
    \/ ImportFromAt(s, i)
    \/ ExportAt(s, i)

\* .replace(/\r\n/g, '\n')
RECURSIVE NormalizeLineEndings(_)
NormalizeLineEndings(s) ==
  IF s = <<>> THEN <<>>
  ELSE IF HasLit(s, 1, <<CR, LF>>)
       THEN <<LF>> \o NormalizeLineEndings(Slice(s, 3, Len(s)))
  ELSE <<s[1]>> \o NormalizeLineEndings(Tail(s))

\* .replace(/[ \t]+$/gm, '')
RECURSIVE StripTrailingWhitespace(_)
StripTrailingWhitespace(s) ==
  IF s = <<>> THEN <<>>
  ELSE IF s[1] \in {SP, TAB}
       THEN LET j == Run(s, 1, {SP, TAB})
            IN  IF j = Len(s) + 1 \/ s[j] \in LineTerm
                THEN StripTrailingWhitespace(Slice(s, j, Len(s)))
                ELSE Slice(s, 1, j - 1)
                     \o StripTrailingWhitespace(Slice(s, j, Len(s)))
  ELSE <<s[1]>> \o StripTrailingWhitespace(Tail(s))

\* .replace(/\n{3,}/g, '\n\n')
RECURSIVE CollapseBlankLines(_)
CollapseBlankLines(s) ==
  IF s = <<>> THEN <<>>
  ELSE IF s[1] = LF
       THEN LET j == Run(s, 1, {LF})
            IN  (IF j - 1 >= 3 THEN <<LF, LF>> ELSE Slice(s, 1, j - 1))
                \o CollapseBlankLines(Slice(s, j, Len(s)))
  ELSE <<s[1]>> \o CollapseBlankLines(Tail(s))

\* .replace(/\/\*[\s\S]*?\*\//g, '')
RECURSIVE RemoveBlockComments(_)
RemoveBlockComments(s) ==
  IF s = <<>> THEN <<>>
  ELSE IF /\ HasLit(s, 1, <<"/", "*">>)
          /\ \E k \in 3..Len(s) : HasLit(s, k, <<"*", "/">>)
       THEN LET k == CHOOSE k \in 3..Len(s) :
                       /\ HasLit(s, k, <<"*", "/">>)
                       /\ \A m \in 3..(k - 1) : ~HasLit(s, m, <<"*", "/">>)
            IN  RemoveBlockComments(Slice(s, k + 2, Len(s)))
  ELSE <<s[1]>> \o RemoveBlockComments(Tail(s))

\* .replace(/\/\/.*$/gm, '')
RECURSIVE RemoveLineComments(_)
RemoveLineComments(s) ==
  IF s = <<>> THEN <<>>
  ELSE IF HasLit(s, 1, <<"/", "/">>)
       THEN RemoveLineComments(
              Slice(s, Run(s, 3, {c \in Range(s) : c \notin LineTerm}), Len(s)))
  ELSE <<s[1]>> \o RemoveLineComments(Tail(s))

\* .replace(/^\s*\n/gm, ''): scan from position i; atStart tells whether
\* position i is the start of a line.
RECURSIVE RemoveEmptyLinesFrom(_, _, _)
RemoveEmptyLinesFrom(s, i, atStart) ==
  IF i > Len(s) THEN <<>>
  ELSE LET r == Run(s, i, SpaceCh)
           nls == {k \in i..(r - 1) : s[k] = LF}
       IN  IF atStart /\ nls # {}
           THEN LET k == CHOOSE k \in nls : \A m \in nls : m <= k
                IN  RemoveEmptyLinesFrom(s, k + 1, TRUE)
           ELSE <<s[i]>> \o RemoveEmptyLinesFrom(s, i + 1, s[i] \in LineTerm)

RemoveEmptyLines(s) == RemoveEmptyLinesFrom(s, 1, TRUE)

applyTextOptimizations(content) ==
  LET optimized ==
        CollapseBlankLines(StripTrailingWhitespace(NormalizeLineEndings(content)))
  IN  IF isSourceCode(content)
      THEN RemoveEmptyLines(RemoveLineComments(RemoveBlockComments(optimized)))
      ELSE optimized

\* ------------------------------------------------------------------------
\* Dictionary derivation
\* ------------------------------------------------------------------------
DictionaryTopN == 50

\* /(?:import|require)\s*\([^)]+\)/ at position i: end of match, 0 if none.
\* "(" at position j, then at least minLen characters other than ")", then
\* ")": position of that ")", or 0.
ParenClose(s, j, minLen, j2) == IF j2 >= j + 1 + minLen /\ j2 <= Len(s) THEN j2 ELSE 0
ParenEnd(s, j, minLen) ==
  IF HasLit(s, j, <<"(">>)
  THEN ParenClose(s, j, minLen, Run(s, j + 1, Range(s) \ {")"}))
  ELSE 0

ImportEnd(s, i) ==
  IF HasLit(s, i, <<"i", "m", "p", "o", "r", "t">>)
  THEN ParenEnd(s, Run(s, i + 6, SpaceCh), 1)
  ELSE IF HasLit(s, i, <<"r", "e", "q", "u", "i", "r", "e">>)
  THEN ParenEnd(s, Run(s, i + 7, SpaceCh), 1)
  ELSE 0

\* /function\s+\w+\s*\([^)]*\)/ at position i: end of match, 0 if none.
FunctionEnd(s, i) ==
  IF HasLit(s, i, <<"f", "u", "n", "c", "t", "i", "o", "n">>)
  THEN ParenEnd(s, AfterName(s, i + 8), 0)
  ELSE 0

\* content.match(/.../g): the successive non-overlapping matches.
RECURSIVE ImportMatches(_, _)
ImportMatches(s, i) ==
  IF i > Len(s) THEN <<>>
  ELSE IF ImportEnd(s, i) > 0
  THEN <<Slice(s, i, ImportEnd(s, i))>> \o ImportMatches(s, ImportEnd(s, i) + 1)
  ELSE ImportMatches(s, i + 1)

RECURSIVE FunctionMatches(_, _)
FunctionMatches(s, i) ==
  IF i > Len(s) THEN <<>>
  ELSE IF FunctionEnd(s, i) > 0
  THEN <<Slice(s, i, FunctionEnd(s, i))>>
       \o FunctionMatches(s, FunctionEnd(s, i) + 1)
  ELSE FunctionMatches(s, i + 1)

\* All pattern occurrences over the group, in the order patterns.set sees them.
RECURSIVE Occurrences(_)
Occurrences(contents) ==
  IF contents = <<>> THEN <<>>
  ELSE ImportMatches(contents[1], 1) \o FunctionMatches(contents[1], 1)
       \o Occurrences(Tail(contents))

\* Keys of the patterns Map, in insertion order.
RECURSIVE Distinct(_)
AppendNew(init, x) == IF x \in Range(init) THEN init ELSE Append(init, x)

Distinct(list) ==
  IF list = <<>> THEN <<>>
  ELSE AppendNew(Distinct(Slice(list, 1, Len(list) - 1)), list[Len(list)])

CountIn(list, x) == Cardinality({k \in 1..Len(list) : list[k] = x})

\* .sort((a, b) => b[1] - a[1]): stable, descending by frequency.
RECURSIVE SortByFrequency(_, _)
InsertAt(init, pos, x) ==
  Slice(init, 1, pos) \o <<x>> \o Slice(init, pos + 1, Len(init))

\* x goes after every element that is at least as frequent (a stable sort).
InsertByFrequency(init, x, occ) ==
  InsertAt(init,
           Cardinality({k \in 1..Len(init) :
                          CountIn(occ, init[k]) >= CountIn(occ, x)}),
           x)

SortByFrequency(keys, occ) ==
  IF keys = <<>> THEN <<>>
  ELSE InsertByFrequency(SortByFrequency(Slice(keys, 1, Len(keys) - 1), occ),
                         keys[Len(keys)], occ)

\* Array.prototype.join
RECURSIVE Join(_, _)
Join(parts, sep) ==
  IF parts = <<>> THEN <<>>
  ELSE IF Len(parts) = 1 THEN parts[1]
  ELSE parts[1] \o sep \o Join(Tail(parts), sep)

\* .slice(0, 50)
TopPatterns(sorted) ==
  Slice(sorted, 1, IF Len(sorted) < DictionaryTopN THEN Len(sorted)
                   ELSE DictionaryTopN)

PatternsByFrequency(occ) == SortByFrequency(Distinct(occ), occ)

createDictionary(contents) ==
  Join(TopPatterns(PatternsByFrequency(Occurrences(contents))), <<LF>>)

DictionaryGroupSize == 3

\* tryDictionaryCompression: the group is extended first; the result is null
\* unless the group has reached DictionaryGroupSize and the algorithm is lzma.
\* compressOk = FALSE models lzmaCompress rejecting (caught, null returned).
GroupAfterPush(fileGroups, filePath, content) ==
  [fileGroups EXCEPT ![extname(filePath)] = Append(@, content)]

\* The buffer returned by a successful attempt, with its dictionary property.
EnhancedPayload(dictionary, content, n) ==
  [isNull |-> FALSE,
   blob |-> lzmaCompress(StrV(dictionary \o <<LF>> \o content), n),
   dictionary |-> dictionary]

NoPayload == [isNull |-> TRUE, blob |-> Garbage, dictionary |-> <<>>]

\* An attempt that starts at two group members and lets a failure through.
DictionaryAttemptEager(group, content, algorithm, compressOk, n) == IF Len(group) >= 2 /\ algorithm = "lzma" THEN EnhancedPayload(createDictionary(group), content, n) ELSE NoPayload

DictionaryAttempt(group, content, algorithm, compressOk, n) ==
  IF Len(group) >= DictionaryGroupSize /\ algorithm = "lzma" /\ compressOk
  THEN EnhancedPayload(createDictionary(group), content, n)
  ELSE NoPayload

tryDictionaryCompression(content, filePath, fileGroups, algorithm, compressOk, n) ==
  DictionaryAttempt(
    GroupAfterPush(fileGroups, filePath, content)[extname(filePath)],
    content, algorithm, compressOk, n)

\* ------------------------------------------------------------------------
\* File contents and option sets the builds are run on
\* ------------------------------------------------------------------------
Bin80 == <<"x80">>
Bin81 == <<"x81">>
FunSrc == <<"f", "u", "n", "c", "t", "i", "o", "n", SP, "f", "(", ")">>
FunSrcComment == FunSrc \o <<"/", "/", "c">>
Contents == {Bin80, Bin81, FunSrc, FunSrcComment}

Extensions == {extname(p) : p \in Paths}

DefaultOptions ==
  [deduplication |-> TRUE, deltaCompression |-> TRUE,
   validateAfterCompression |-> TRUE, algorithm |-> "lzma"]
NoDeltaOptions == [DefaultOptions EXCEPT !.deltaCompression = FALSE]
UltraOptions == [DefaultOptions EXCEPT !.validateAfterCompression = FALSE]
OptionProfiles == {DefaultOptions, NoDeltaOptions, UltraOptions}

Trees ==
  UNION {[P -> Contents] : P \in {Q \in SUBSET Paths : Cardinality(Q) <= MaxFiles}}

\* ------------------------------------------------------------------------
\* State
\* ------------------------------------------------------------------------
VARIABLES
  sourceKind,        \* "dir" | "file" | "missing": what sourceDir is
  disk,              \* relative path -> bytes of the files under sourceDir
  opts,              \* options of the compressDirectory call
  pc,                \* position inside compressDirectory
  outputDirCreated,  \* ensureOutputDirectory has run
  files,             \* result of getAllFiles (full paths, walk order)
  idx,               \* loop index i of compressFiles (1-based)
  fileMap,           \* relative path -> record collected so far
  keyOrder,          \* insertion order of the keys of fileMap
  fileHashes,        \* dedup index: hash -> relative path
  fileGroups,        \* extension -> contents pushed so far
  warned,            \* files for which compressFiles logged a failure
  faults,            \* number of injected failures so far
  archive,           \* the archive file on disk, or NoArchive
  cerror,            \* message of the error thrown by compressDirectory
  tampered,          \* key of the record whose payload was altered on disk
  dpc,               \* position inside decompressArchive
  dpos,              \* index of the next entry of Object.entries(archive.files)
  processedFiles,    \* relative path -> bytes already extracted
  outDisk,           \* relative path -> bytes written under outputDir
  derror,            \* error thrown by decompressArchive: [kind, path]
  sourceEdit,        \* a source file rewritten after the archive was written
  builds,            \* number of compressDirectory calls made on the instance
  vlog,              \* results of the later validateCompressedArchive calls
  svc,               \* a call of a staging function: input, position, tempDir
  processEnv,        \* process.env: variable name -> value
  notification,      \* the deployment notification sent, or NoNotification
  deploy,            \* a call of executeDeploymentPipeline and its per-network tasks
  retry,             \* a call of withRetry
  stream,            \* a call of compressLargeFileStream: its three streams
  bbout              \* overlapping compressBboutFile calls and their shared tempDir

vars == <<sourceKind, disk, opts, pc, outputDirCreated, files, idx, fileMap,
          keyOrder, fileHashes, fileGroups, warned, faults, archive, cerror,
          tampered, dpc, dpos, processedFiles, outDisk, derror, sourceEdit,
          builds, vlog, svc, processEnv, notification, deploy, retry, stream,
          bbout>>

buildVars == <<pc, outputDirCreated, files, idx, fileMap, keyOrder, fileHashes,
               fileGroups, warned, archive, cerror>>
extractVars == <<dpc, dpos, processedFiles, outDisk, derror>>
envVars == <<sourceKind, disk, opts, sourceEdit, builds>>
auxVars == <<deploy, retry, stream, bbout>>
svcVars == <<svc, processEnv, notification, auxVars>>
archiveVars == <<buildVars, envVars, extractVars, faults, tampered, vlog>>

NaN == 0 - 1
NoArchive == [written |-> FALSE]
NoError == [kind |-> "none", path |-> ""]
EmptyMap == [k \in {} |-> 0]
NoEdit == [path |-> "", bytes |-> <<>>]
NoCall == [fn |-> "none", body |-> "none", size |-> "small", json |-> "valid", present |-> TRUE, pc |-> "idle", tempDir |-> "absent", error |-> ""]
NoNotification == [status |-> "none", envs |-> EmptyMap]
Idle == [pc |-> "idle"]

\* No pipeline, retry loop, large-file stream or compressBboutFile call exists.
AuxIdle == deploy = Idle /\ retry = Idle /\ stream = Idle /\ bbout = Idle

Init ==
  /\ sourceKind \in {"dir", "file", "missing"}
  /\ disk \in IF sourceKind = "dir" THEN Trees ELSE {EmptyMap}
  /\ opts \in OptionProfiles
  /\ pc = "start"
  /\ outputDirCreated = FALSE
  /\ files = <<>>
  /\ idx = 1
  /\ fileMap = EmptyMap
  /\ keyOrder = <<>>
  /\ fileHashes = EmptyMap
  /\ fileGroups = [e \in Extensions |-> <<>>]
  /\ warned = {}
  /\ faults = 0
  /\ archive = NoArchive
  /\ cerror = "none"
  /\ tampered = ""
  /\ dpc = "idle"
  /\ dpos = 1
  /\ processedFiles = EmptyMap
  /\ outDisk = EmptyMap
  /\ derror = NoError
  /\ sourceEdit = NoEdit
  /\ builds = 1
  /\ vlog = <<>>
  /\ svc = NoCall
  /\ processEnv = EmptyMap
  /\ notification = NoNotification
  /\ AuxIdle

\* ------------------------------------------------------------------------
\* Records
\* ------------------------------------------------------------------------
\* A duplicate record has no content and no compressedSize property; the
\* missing compressedSize behaves as NaN in the metadata sum.
DuplicateRecord(ref, hash, size) ==
  [type |-> "duplicate", referenceFile |-> ref, originalHash |-> hash,
   originalSize |-> size, content |-> <<"undefined">>, compressedSize |-> NaN,
   dictionary |-> <<>>]

StandardRecord(blob, hash, size) ==
  [type |-> "standard", referenceFile |-> "", originalHash |-> hash,
   originalSize |-> size, content |-> ToBase64(blob),
   compressedSize |-> blob.length, dictionary |-> <<>>]

DictionaryRecord(blob, hash, size, dictionary) ==
  [type |-> "dictionary", referenceFile |-> "", originalHash |-> hash,
   originalSize |-> size, content |-> ToBase64(blob),
   compressedSize |-> blob.length, dictionary |-> dictionary]

\* The bytes a stored payload yields: decompress, then drop the dictionary
\* prefix and its newline when the record is a dictionary record whose
\* dictionary string is truthy (non-empty).
PayloadBytes(fileInfo) ==
  LET decompressed == lzmaDecompress(FromBase64(fileInfo.content)).v
  IN  IF fileInfo.type = "dictionary" /\ fileInfo.dictionary # <<>>
      THEN LET dictLength == Len(Utf8Encode(fileInfo.dictionary)) + 1
           IN  Slice(decompressed, dictLength + 1, Len(decompressed))
      ELSE decompressed

\* validateFileCompression: TRUE when it returns, FALSE when it throws.
validateFileCompression(fileInfo, originalContent) ==
  \/ fileInfo.type = "duplicate"
  \/ /\ FromBase64(fileInfo.content).intact
     /\ calculateHash(BufV(PayloadBytes(fileInfo))) = calculateHash(originalContent)

\* Object.entries order: integer-like keys ascending, then insertion order.
SelectKeys(ks, S) == SelectSeq(ks, LAMBDA k : k \in S)

EntriesOrder(ks) ==
  LET ints == {ks[k] : k \in 1..Len(ks)} \cap IntegerKeys
      sortedInts ==
        CHOOSE q \in [1..Cardinality(ints) -> ints] :
          \A a, b \in 1..Cardinality(ints) :
            a < b => IntegerValue(q[a]) < IntegerValue(q[b])
  IN  sortedInts \o SelectKeys(ks, Paths \ IntegerKeys)

RECURSIVE SumOver(_, _, _)
SumOver(map, keys, field) ==
  IF keys = <<>> THEN 0
  ELSE LET rest == SumOver(map, Tail(keys), field)
           x == map[keys[1]][field]
       IN  IF rest = NaN \/ x = NaN THEN NaN ELSE x + rest

createCompressionMetadata(fs, map, order) ==
  [fileCount |-> Len(fs),
   totalOriginalSize |-> SumOver(map, order, "originalSize"),
   totalCompressedSize |-> SumOver(map, order, "compressedSize")]

\* ------------------------------------------------------------------------
\* compressDirectory
\* ------------------------------------------------------------------------
Throw(msg) == /\ pc' = "threw" /\ cerror' = msg

\* A check that lets every source path through.
acceptAnySource(kind, entries) == "ok"

\* A check that also rejects a directory without entries.
rejectEmptySource(kind, entries) ==
  IF kind = "missing" THEN "Source directory not found"
  ELSE IF kind = "file" THEN "Source path is not a directory"
  ELSE IF entries = {} THEN "Source directory is empty"
  ELSE "ok"

\* validateSourceDirectory: "ok" when it returns, else the error's message.
\* An empty directory is only logged.
validateSourceDirectory(kind, entries) ==
  IF kind = "missing" THEN "Source directory not found"
  ELSE IF kind = "file" THEN "Source path is not a directory"
  ELSE "ok"

\* validateSourceDirectory (first step of compressDirectory)
ValidateSourceDirectory ==
  /\ pc = "start"
  /\ IF validateSourceDirectory(sourceKind, DOMAIN disk) = "ok"
     THEN pc' = "validated" /\ cerror' = cerror
     ELSE Throw("Compression failed: "
                  \o validateSourceDirectory(sourceKind, DOMAIN disk))
  /\ UNCHANGED <<outputDirCreated, files, idx, fileMap, keyOrder, fileHashes,
                 fileGroups, warned, archive, faults, tampered>>
  /\ UNCHANGED envVars /\ UNCHANGED extractVars /\ UNCHANGED vlog /\ UNCHANGED svcVars

\* ensureOutputDirectory
EnsureOutputDirectory ==
  /\ pc = "validated"
  /\ outputDirCreated' = TRUE
  /\ pc' = "ensured"
  /\ UNCHANGED <<files, idx, fileMap, keyOrder, fileHashes, fileGroups, warned,
                 archive, cerror, faults, tampered>>
  /\ UNCHANGED envVars /\ UNCHANGED extractVars /\ UNCHANGED vlog /\ UNCHANGED svcVars

\* The orders in which readdir may list the root directory.
RootAscending == <<"7", "a.txt", "b.txt", SubDir>>
RootDescending == <<SubDir, "b.txt", "a.txt", "7">>
ReaddirOrders == {RootAscending, RootDescending}

\* getAllFiles: entries in readdir order, a subdirectory replaced by the files
\* found in it; a subdirectory whose listing fails contributes nothing.
RECURSIVE getAllFiles(_, _)
getAllFiles(entries, subListingFails) ==
  IF entries = <<>> THEN <<>>
  ELSE LET e == entries[1]
           here ==
             IF e = SubDir
             THEN IF subListingFails THEN <<>>
                  ELSE IF "sub/c.txt" \in DOMAIN disk
                       THEN <<FullPath("sub/c.txt")>> ELSE <<>>
             ELSE IF e \in DOMAIN disk THEN <<FullPath(e)>> ELSE <<>>
       IN  here \o getAllFiles(Tail(entries), subListingFails)

GetAllFiles ==
  /\ pc = "ensured"
  /\ \E order \in ReaddirOrders : \E subListingFails \in BOOLEAN :
       /\ subListingFails => faults < MaxFaults
       /\ files' = getAllFiles(order, subListingFails)
       /\ faults' = IF subListingFails THEN faults + 1 ELSE faults
  /\ pc' = "compressing"
  /\ idx' = 1
  /\ UNCHANGED <<outputDirCreated, fileMap, keyOrder, fileHashes, fileGroups,
                 warned, archive, cerror, tampered>>
  /\ UNCHANGED envVars /\ UNCHANGED extractVars /\ UNCHANGED vlog /\ UNCHANGED svcVars

\* fileMap[key] = record
SetKey(map, key, rec) ==
  [k \in DOMAIN map \cup {key} |-> IF k = key THEN rec ELSE map[k]]

OrderAfterSet(order, key) ==
  IF key \in Range(order) THEN order ELSE Append(order, key)

\* An index that registers every file, duplicates included.
IndexEveryFile(hashes, deduplication, isDuplicate, originalHash, relativePath) ==
  IF deduplication THEN SetKey(hashes, originalHash, relativePath) ELSE hashes

\* The dedup index after the duplicate check of compressFile: a file found in
\* the index returns before fileHashes.set; any other file is registered.
DedupIndexAfter(hashes, deduplication, isDuplicate, originalHash, relativePath) ==
  IF deduplication /\ ~isDuplicate
  THEN SetKey(hashes, originalHash, relativePath)
  ELSE hashes

\* A choice that also takes a dictionary payload of equal length.
ChooseRecordOrEqual(compressed, useDictionary, betterCompressed, originalHash, size) == IF useDictionary /\ ~betterCompressed.isNull /\ betterCompressed.blob.length <= compressed.length THEN DictionaryRecord(betterCompressed.blob, originalHash, size, betterCompressed.dictionary) ELSE StandardRecord(compressed, originalHash, size)

\* The record compressFile stores for a file that is not a duplicate.
ChooseRecord(compressed, useDictionary, betterCompressed, originalHash, size) ==
  IF useDictionary /\ ~betterCompressed.isNull
     /\ betterCompressed.blob.length < compressed.length
  THEN DictionaryRecord(betterCompressed.blob, originalHash, size,
                        betterCompressed.dictionary)
  ELSE StandardRecord(compressed, originalHash, size)

\* The content handed to the compressor (lines 285-289).
DataToCompress(fileContent, isText, deltaCompression) ==
  IF isText /\ deltaCompression
  THEN StrV(applyTextOptimizations(fileContent.v)) ELSE fileContent

\* compressFile from the point where the file was read and hashed.
\* outcome names the failure injected into this call, delta by how much the
\* dictionary payload is longer than the plain payload (prepending text may
\* shrink or grow the LZMA output).
CompressRead(outcome, delta, relativePath, content, isText, originalHash, isDuplicate, dataToCompress, compressed) ==
  IF isDuplicate
  THEN /\ fileMap' = SetKey(fileMap, relativePath,
                            DuplicateRecord(fileHashes[originalHash],
                                            originalHash, Len(content.v)))
       /\ keyOrder' = OrderAfterSet(keyOrder, relativePath)
       /\ fileHashes' = DedupIndexAfter(fileHashes, opts.deduplication, TRUE,
                                        originalHash, relativePath)
       /\ UNCHANGED <<fileGroups, warned>>
  ELSE IF outcome = "compressFail"
  THEN \* lzmaCompress rejects after the hash was registered
       /\ fileHashes' = DedupIndexAfter(fileHashes, opts.deduplication, FALSE,
                                        originalHash, relativePath)
       /\ warned' = warned \cup {relativePath}
       /\ UNCHANGED <<fileMap, keyOrder, fileGroups>>
  ELSE /\ fileHashes' = DedupIndexAfter(fileHashes, opts.deduplication, FALSE,
                                        originalHash, relativePath)
       /\ fileGroups' = IF opts.deltaCompression /\ isText
                        THEN GroupAfterPush(fileGroups, relativePath,
                                            dataToCompress.v)
                        ELSE fileGroups
       /\ fileMap' =
            SetKey(fileMap, relativePath,
                   ChooseRecord(compressed, opts.deltaCompression /\ isText,
                                tryDictionaryCompression(
                                  dataToCompress.v, relativePath, fileGroups,
                                  opts.algorithm, outcome # "dictFail",
                                  compressed.length + delta),
                                originalHash, Len(content.v)))
       /\ keyOrder' = OrderAfterSet(keyOrder, relativePath)
       /\ warned' = IF validateFileCompression(fileMap'[relativePath], content)
                    THEN warned ELSE warned \cup {relativePath}

CompressHashed(outcome, delta, relativePath, content, isText, originalHash, dataToCompress) ==
  CompressRead(outcome, delta, relativePath, content, isText, originalHash,
               opts.deduplication /\ originalHash \in DOMAIN fileHashes,
               dataToCompress,
               lzmaCompress(dataToCompress, NominalLength(dataToCompress)))

\* One iteration of the loop of compressFiles: compressFile(files[idx]) inside
\* the try/catch that logs and continues.
CompressFileAt(outcome, delta, relativePath, content, isText) ==
  /\ outcome = "dictFail" =>
       /\ opts.deltaCompression /\ isText /\ opts.algorithm = "lzma"
       /\ ~(opts.deduplication /\ calculateHash(content) \in DOMAIN fileHashes)
       /\ Len(fileGroups[extname(relativePath)]) + 1 >= DictionaryGroupSize
  /\ outcome = "compressFail" =>
       ~(opts.deduplication /\ calculateHash(content) \in DOMAIN fileHashes)
  /\ IF outcome = "readFail"
     THEN \* fs.readFile rejects: nothing was touched yet
          /\ warned' = warned \cup {relativePath}
          /\ UNCHANGED <<fileMap, keyOrder, fileHashes, fileGroups>>
     ELSE CompressHashed(outcome, delta, relativePath, content, isText,
                         calculateHash(content),
                         DataToCompress(IF isText
                                        THEN StrV(Utf8Decode(content.v))
                                        ELSE content,
                                        isText, opts.deltaCompression))

CompressFileStep(outcome, delta) ==
  CompressFileAt(outcome, delta, getRelativePath(files[idx], SourceDir),
                 BufV(disk[getRelativePath(files[idx], SourceDir)]),
                 isTextFile(getRelativePath(files[idx], SourceDir)))

FaultOutcomes == {"readFail", "compressFail", "dictFail"}

RelPath(i) == getRelativePath(files[i], SourceDir)

\* The length differences worth telling apart for files[idx]: the dictionary
\* payload exists only once the group of its extension reaches three files.
LenDeltas ==
  IF /\ opts.deltaCompression
     /\ Len(fileGroups[extname(RelPath(idx))]) + 1 >= DictionaryGroupSize
  THEN (0 - MaxLenDelta)..MaxLenDelta
  ELSE {0}

CompressFile ==
  /\ pc = "compressing"
  /\ idx <= Len(files)
  /\ \E outcome \in {"ok"} \cup FaultOutcomes :
     \E delta \in LenDeltas :
       /\ outcome \in FaultOutcomes => faults < MaxFaults
       /\ CompressFileStep(outcome, delta)
       /\ faults' = IF outcome \in FaultOutcomes THEN faults + 1 ELSE faults
  /\ idx' = idx + 1
  /\ UNCHANGED <<pc, outputDirCreated, files, archive, cerror, tampered>>
  /\ UNCHANGED envVars /\ UNCHANGED extractVars /\ UNCHANGED vlog /\ UNCHANGED svcVars

\* createCompressionMetadata + createFinalArchive: the archive object is
\* serialised (JSON keeps the Object.entries key order) and written.
CreateFinalArchive ==
  /\ pc = "compressing"
  /\ idx > Len(files)
  /\ archive' = [written |-> TRUE,
                 metadata |-> createCompressionMetadata(files, fileMap, keyOrder),
                 files |-> fileMap,
                 order |-> EntriesOrder(keyOrder)]
  /\ pc' = "archived"
  /\ UNCHANGED <<outputDirCreated, files, idx, fileMap, keyOrder, fileHashes,
                 fileGroups, warned, cerror, faults, tampered>>
  /\ UNCHANGED envVars /\ UNCHANGED extractVars /\ UNCHANGED vlog /\ UNCHANGED svcVars

\* What fs.readFile finds at a source path now.
ReadSource(rel) == IF sourceEdit.path = rel THEN sourceEdit.bytes ELSE disk[rel]

\* A validator that compares the number of records only.
validateCountOnly(arch, originalFiles, baseDir) ==
  IF Cardinality(DOMAIN arch.files) # Len(originalFiles)
  THEN "Validation failed: File count mismatch"
  ELSE "ok"

\* A validator that accepts an archive only the first time it is asked.
validateOnce(arch, originalFiles, baseDir) ==
  IF vlog = <<>> THEN validateCountOnly(arch, originalFiles, baseDir)
  ELSE "Validation failed: archive already validated"

\* validateCompressedArchive: "ok" when it returns true, else the error.
validateCompressedArchive(arch, originalFiles, baseDir) ==
  LET rel(i) == getRelativePath(originalFiles[i], baseDir)
      missing(i) == rel(i) \notin DOMAIN arch.files
      mismatch(i) ==
        calculateHash(StrV(Utf8Decode(ReadSource(rel(i)))))
          # arch.files[rel(i)].originalHash
      bad == {i \in 1..Len(originalFiles) : missing(i) \/ mismatch(i)}
      first == CHOOSE i \in bad : \A j \in bad : i <= j
  IN  IF Cardinality(DOMAIN arch.files) # Len(originalFiles)
      THEN "Validation failed: File count mismatch"
      ELSE IF bad = {} THEN "ok"
      ELSE IF missing(first)
      THEN "Validation failed: File missing from archive"
      ELSE "Validation failed: Hash mismatch for file"

\* One call of validateCompressedArchive as the log of calls keeps it.
ValidatorRun(verdict, inBuild) ==
  [verdict |-> verdict, edit |-> sourceEdit, inBuild |-> inBuild]

\* Tail of compressDirectory: optional validation, then return archivePath.
FinishCompressDirectory ==
  /\ pc = "archived"
  /\ IF opts.validateAfterCompression
     THEN /\ vlog' = Append(vlog,
                 ValidatorRun(validateCompressedArchive(archive, files, SourceDir),
                              TRUE))
          /\ IF vlog'[Len(vlog')].verdict = "ok"
             THEN pc' = "returned" /\ cerror' = cerror
             ELSE Throw("Compression failed: " \o vlog'[Len(vlog')].verdict)
     ELSE pc' = "returned" /\ cerror' = cerror /\ vlog' = vlog
  /\ UNCHANGED <<outputDirCreated, files, idx, fileMap, keyOrder, fileHashes,
                 fileGroups, warned, archive, faults, tampered>>
  /\ UNCHANGED envVars /\ UNCHANGED extractVars /\ UNCHANGED svcVars

\* A later call of validateCompressedArchive on the returned archive with the
\* file list of the build.
RunValidator ==
  /\ pc = "returned"
  /\ dpc = "idle"
  /\ Len(vlog) < MaxValidations
  /\ vlog' = Append(vlog,
         ValidatorRun(validateCompressedArchive(archive, files, SourceDir),
                      FALSE))
  /\ UNCHANGED <<faults, tampered>>
  /\ UNCHANGED buildVars /\ UNCHANGED envVars /\ UNCHANGED extractVars /\ UNCHANGED svcVars

\* ------------------------------------------------------------------------
\* Environment: a source file is rewritten once the archive file exists
\* (at most one rewrite, followed for builds that met no injected failure)
\* ------------------------------------------------------------------------
ModifySource ==
  /\ pc \in {"archived", "returned"}
  /\ dpc = "idle"
  /\ tampered = ""
  /\ sourceEdit = NoEdit
  /\ faults = 0
  /\ \E p \in DOMAIN disk : \E c \in Contents \ {disk[p]} :
       sourceEdit' = [path |-> p, bytes |-> c]
  /\ UNCHANGED <<sourceKind, disk, opts, builds, faults, tampered, vlog>>
  /\ UNCHANGED buildVars /\ UNCHANGED extractVars /\ UNCHANGED svcVars

\* ------------------------------------------------------------------------
\* Environment: the payload of one Standard record is altered on disk
\* ------------------------------------------------------------------------
AlteredPayloads(blob) ==
  ({[blob EXCEPT !.lz = c] : c \in Contents} \cup {[blob EXCEPT !.intact = FALSE]})
    \ {blob}

TamperPayload ==
  /\ pc = "returned"
  /\ dpc = "idle"
  /\ tampered = ""
  /\ sourceEdit = NoEdit
  /\ \A k \in 1..Len(vlog) : vlog[k].inBuild
  /\ faults < MaxFaults
  /\ \E k \in DOMAIN archive.files :
       /\ archive.files[k].type = "standard"
       /\ \E blob \in AlteredPayloads(FromBase64(archive.files[k].content)) :
            archive' = [archive EXCEPT !.files[k].content = ToBase64(blob)]
       /\ tampered' = k
  /\ faults' = faults + 1
  /\ UNCHANGED <<pc, outputDirCreated, files, idx, fileMap, keyOrder,
                 fileHashes, fileGroups, warned, cerror>>
  /\ UNCHANGED envVars /\ UNCHANGED extractVars /\ UNCHANGED vlog /\ UNCHANGED svcVars

\* ------------------------------------------------------------------------
\* decompressArchive
\* ------------------------------------------------------------------------
\* Read the archive, parse it, create outputDir.
DecompressStart ==
  /\ pc = "returned"
  /\ dpc = "idle"
  /\ sourceEdit = NoEdit
  /\ \A k \in 1..Len(vlog) : vlog[k].inBuild
  /\ dpc' = "extracting"
  /\ dpos' = 1
  /\ UNCHANGED <<processedFiles, outDisk, derror, faults, tampered>>
  /\ UNCHANGED buildVars /\ UNCHANGED envVars /\ UNCHANGED vlog /\ UNCHANGED svcVars

DThrow(kind, path) == /\ dpc' = "threw" /\ derror' = [kind |-> kind, path |-> path]

\* One iteration of the extraction loop.
ExtractEntry ==
  /\ dpc = "extracting"
  /\ dpos <= Len(archive.order)
  /\ LET relativePath == archive.order[dpos]
         fileInfo == archive.files[relativePath]
         resolved ==
           IF fileInfo.type = "duplicate"
           THEN fileInfo.referenceFile \in DOMAIN processedFiles
           ELSE FromBase64(fileInfo.content).intact
         decompressedContent ==
           IF fileInfo.type = "duplicate"
           THEN processedFiles[fileInfo.referenceFile]
           ELSE PayloadBytes(fileInfo)
     IN  IF ~resolved
         THEN /\ IF fileInfo.type = "duplicate"
                 THEN DThrow("Reference file not yet processed",
                             fileInfo.referenceFile)
                 ELSE DThrow("lzma decompression error", "")
              /\ UNCHANGED <<dpos, processedFiles, outDisk>>
         ELSE /\ outDisk' = SetKey(outDisk, relativePath, decompressedContent)
              /\ processedFiles' =
                   SetKey(processedFiles, relativePath, decompressedContent)
              /\ IF calculateHash(BufV(decompressedContent))
                      # fileInfo.originalHash
                 THEN DThrow("Extraction validation failed", relativePath)
                      /\ dpos' = dpos
                 ELSE dpos' = dpos + 1 /\ dpc' = dpc /\ derror' = derror
  /\ UNCHANGED <<faults, tampered>>
  /\ UNCHANGED buildVars /\ UNCHANGED envVars /\ UNCHANGED vlog /\ UNCHANGED svcVars

\* Loop finished: return outputDir.
DecompressReturn ==
  /\ dpc = "extracting"
  /\ dpos > Len(archive.order)
  /\ dpc' = "returned"
  /\ UNCHANGED <<dpos, processedFiles, outDisk, derror, faults, tampered>>
  /\ UNCHANGED buildVars /\ UNCHANGED envVars /\ UNCHANGED vlog /\ UNCHANGED svcVars

\* One call of compressDirectory.
Build ==
  \/ ValidateSourceDirectory
  \/ EnsureOutputDirectory
  \/ GetAllFiles
  \/ CompressFile
  \/ CreateFinalArchive
  \/ FinishCompressDirectory

\* A build, then the archive is (altered and) extracted.
Next ==
  \/ Build
  \/ TamperPayload
  \/ DecompressStart
  \/ ExtractEntry
  \/ DecompressReturn

Spec == Init /\ [][Next]_vars

\* ------------------------------------------------------------------------
\* Several builds on one CompressionUtils instance
\* ------------------------------------------------------------------------
\* An index that outlives the call (a field of the instance).
SharedIndex(previous) == previous

\* const fileHashes = new Map(): the index of a new compressFiles call.
FreshIndex(previous) == EmptyMap

\* const fileGroups = new Map(): the groups of a new compressFiles call.
FreshGroups(previous) == [e \in Extensions |-> <<>>]

\* compressDirectory has settled and the instance will be used again: the
\* locals of the finished call (file list, file map, index, groups) are gone.
FinishCall ==
  /\ pc \in {"returned", "threw"}
  /\ builds < MaxBuilds
  /\ fileHashes' = FreshIndex(fileHashes)
  /\ fileGroups' = FreshGroups(fileGroups)
  /\ pc' = "done"
  /\ sourceKind' = "dir"
  /\ disk' = EmptyMap
  /\ opts' = DefaultOptions
  /\ outputDirCreated' = FALSE
  /\ files' = <<>>
  /\ idx' = 1
  /\ fileMap' = EmptyMap
  /\ keyOrder' = <<>>
  /\ warned' = {}
  /\ faults' = 0
  /\ archive' = NoArchive
  /\ cerror' = "none"
  /\ vlog' = <<>>
  /\ UNCHANGED <<builds, sourceEdit, tampered>>
  /\ UNCHANGED extractVars /\ UNCHANGED svcVars

\* compressDirectory is called again, on any tree and with any options.
StartNextBuild ==
  /\ pc = "done"
  /\ builds' = builds + 1
  /\ disk' \in Trees
  /\ opts' \in OptionProfiles
  /\ pc' = "start"
  /\ UNCHANGED <<sourceKind, sourceEdit, outputDirCreated, files, idx, fileMap,
                 keyOrder, fileHashes, fileGroups, warned, faults, archive,
                 cerror, tampered, vlog>>
  /\ UNCHANGED extractVars /\ UNCHANGED svcVars

NextBuilds ==
  \/ Build
  \/ FinishCall
  \/ StartNextBuild

SpecBuilds == Init /\ [][NextBuilds]_vars

\* A build during or after which a source file may be rewritten, then later
\* calls of the validator on the returned archive.
NextValidate ==
  \/ Build
  \/ ModifySource
  \/ RunValidator

SpecValidate == Init /\ [][NextValidate]_vars

\* ------------------------------------------------------------------------
\* Staging directories of compressBboutFile, compressTestArtifacts and
\* compressLargeFile
\* ------------------------------------------------------------------------
\* No compressDirectory call, extraction or validation is in progress.
PipelineIdle ==
  /\ sourceKind = "dir"
  /\ disk = EmptyMap
  /\ opts = DefaultOptions
  /\ pc = "done"
  /\ outputDirCreated = FALSE
  /\ files = <<>>
  /\ idx = 1
  /\ fileMap = EmptyMap
  /\ keyOrder = <<>>
  /\ fileHashes = EmptyMap
  /\ fileGroups = [e \in Extensions |-> <<>>]
  /\ warned = {}
  /\ faults = 0
  /\ archive = NoArchive
  /\ cerror = "none"
  /\ tampered = ""
  /\ dpc = "idle"
  /\ dpos = 1
  /\ processedFiles = EmptyMap
  /\ outDisk = EmptyMap
  /\ derror = NoError
  /\ sourceEdit = NoEdit
  /\ builds = 1
  /\ vlog = <<>>

StagingFunctions == {"compressBboutFile", "compressTestArtifacts", "compressLargeFile"}

\* The first statement of each function that touches the file system.
FirstStep(fn) == IF fn = "compressTestArtifacts" THEN "stat" ELSE "mkdirTemp"

\* A call of one of the three functions on a source file that exists or not,
\* is above the 50 MB threshold or not, and holds valid JSON or not.
StagingCalls == {[fn |-> f, body |-> f, size |-> z, json |-> j, present |-> e, pc |-> FirstStep(f), tempDir |-> "absent", error |-> ""] : f \in StagingFunctions, z \in {"small", "large"}, j \in {"valid", "invalid"}, e \in BOOLEAN}

\* The statements of each function that sit inside a try block whose catch
\* removes tempDir.  compressBboutFile: only compressDirectory and the rm
\* after it; compressLargeFile: everything after mkdir; compressTestArtifacts:
\* its one catch rethrows without removing anything.
GuardedSteps(body) ==
  CASE body = "compressBboutFile" -> {"compress", "rm"}
    [] body = "compressLargeFile" -> {"copy", "compress", "rm", "metadata"}
    [] OTHER -> {}

\* The statement at step throws: the catch that encloses it (if any) runs and
\* the call ends with the error.
SvcThrow(call, step) == [call EXCEPT !.pc = "threw", !.error = step, !.tempDir = IF step \in GuardedSteps(call.body) THEN "absent" ELSE call.tempDir]

\* An I/O statement either succeeds or fails; one that reads the source file
\* can succeed only when the file is there.
IoOutcomes(needsSource) == IF needsSource /\ ~svc.present THEN {"fail"} ELSE {"ok", "fail"}

\* const fileStats = await fs.stat(artifactsFile)
SvcStat ==
  /\ svc.pc = "stat"
  /\ \E outcome \in IoOutcomes(TRUE) :
       svc' = IF outcome = "ok" THEN [svc EXCEPT !.pc = "mkdirOutput"] ELSE SvcThrow(svc, "stat")
  /\ UNCHANGED <<processEnv, notification>> /\ UNCHANGED auxVars
  /\ UNCHANGED buildVars /\ UNCHANGED envVars /\ UNCHANGED extractVars
  /\ UNCHANGED <<faults, tampered, vlog>>

\* await fs.mkdir(outputDir, { recursive: true }), then the size test: a file
\* above 50 MB is handed to compressLargeFile.
SvcMkdirOutput ==
  /\ svc.pc = "mkdirOutput"
  /\ \E outcome \in IoOutcomes(FALSE) :
       svc' = IF outcome = "fail" THEN SvcThrow(svc, "mkdirOutput")
              ELSE IF svc.size = "large" THEN [svc EXCEPT !.body = "compressLargeFile", !.pc = "mkdirTemp"]
              ELSE [svc EXCEPT !.pc = "read"]
  /\ UNCHANGED <<processEnv, notification>> /\ UNCHANGED auxVars
  /\ UNCHANGED buildVars /\ UNCHANGED envVars /\ UNCHANGED extractVars
  /\ UNCHANGED <<faults, tampered, vlog>>

\* await fs.mkdir(tempDir, { recursive: true })
SvcMkdirTemp ==
  /\ svc.pc = "mkdirTemp"
  /\ \E outcome \in IoOutcomes(FALSE) :
       svc' = IF outcome = "fail" THEN SvcThrow(svc, "mkdirTemp")
              ELSE [svc EXCEPT !.tempDir = "empty", !.pc = CASE svc.body = "compressBboutFile" -> "read" [] svc.body = "compressLargeFile" -> "copy" [] OTHER -> "write"]
  /\ UNCHANGED <<processEnv, notification>> /\ UNCHANGED auxVars
  /\ UNCHANGED buildVars /\ UNCHANGED envVars /\ UNCHANGED extractVars
  /\ UNCHANGED <<faults, tampered, vlog>>

\* const content = await fs.readFile(sourceFile, 'utf8')
SvcReadFile ==
  /\ svc.pc = "read"
  /\ \E outcome \in IoOutcomes(TRUE) :
       svc' = IF outcome = "fail" THEN SvcThrow(svc, "read")
              ELSE [svc EXCEPT !.pc = IF svc.body = "compressBboutFile" THEN "write" ELSE "parse"]
  /\ UNCHANGED <<processEnv, notification>> /\ UNCHANGED auxVars
  /\ UNCHANGED buildVars /\ UNCHANGED envVars /\ UNCHANGED extractVars
  /\ UNCHANGED <<faults, tampered, vlog>>

\* parsedContent = JSON.parse(fileContent), 'Invalid JSON in artifacts file'
SvcParse ==
  /\ svc.pc = "parse"
  /\ svc' = IF svc.json = "valid" THEN [svc EXCEPT !.pc = "mkdirTemp"] ELSE SvcThrow(svc, "parse")
  /\ UNCHANGED <<processEnv, notification>> /\ UNCHANGED auxVars
  /\ UNCHANGED buildVars /\ UNCHANGED envVars /\ UNCHANGED extractVars
  /\ UNCHANGED <<faults, tampered, vlog>>

\* await fs.writeFile(tempFilePath, content, 'utf8')
SvcWriteFile ==
  /\ svc.pc = "write"
  /\ \E outcome \in IoOutcomes(FALSE) :
       svc' = IF outcome = "fail" THEN SvcThrow(svc, "write")
              ELSE [svc EXCEPT !.tempDir = "staged", !.pc = "compress"]
  /\ UNCHANGED <<processEnv, notification>> /\ UNCHANGED auxVars
  /\ UNCHANGED buildVars /\ UNCHANGED envVars /\ UNCHANGED extractVars
  /\ UNCHANGED <<faults, tampered, vlog>>

\* await this.copyFileStream(artifactsFile, tempFilePath)
SvcCopyFileStream ==
  /\ svc.pc = "copy"
  /\ \E outcome \in IoOutcomes(TRUE) :
       svc' = IF outcome = "fail" THEN SvcThrow(svc, "copy")
              ELSE [svc EXCEPT !.tempDir = "staged", !.pc = "compress"]
  /\ UNCHANGED <<processEnv, notification>> /\ UNCHANGED auxVars
  /\ UNCHANGED buildVars /\ UNCHANGED envVars /\ UNCHANGED extractVars
  /\ UNCHANGED <<faults, tampered, vlog>>

\* await compressionUtils.compressDirectory(tempDir, outputDir): it resolves
\* with the archive path or rejects.
SvcCompressDirectory ==
  /\ svc.pc = "compress"
  /\ \E outcome \in IoOutcomes(FALSE) :
       svc' = IF outcome = "fail" THEN SvcThrow(svc, "compress") ELSE [svc EXCEPT !.pc = "rm"]
  /\ UNCHANGED <<processEnv, notification>> /\ UNCHANGED auxVars
  /\ UNCHANGED buildVars /\ UNCHANGED envVars /\ UNCHANGED extractVars
  /\ UNCHANGED <<faults, tampered, vlog>>

\* await fs.rm(tempDir, { recursive: true, force: true }) on the success
\* path; compressBboutFile returns right after it.
SvcRemove ==
  /\ svc.pc = "rm"
  /\ svc' = [svc EXCEPT !.tempDir = "absent", !.pc = IF svc.body = "compressBboutFile" THEN "returned" ELSE "metadata"]
  /\ UNCHANGED <<processEnv, notification>> /\ UNCHANGED auxVars
  /\ UNCHANGED buildVars /\ UNCHANGED envVars /\ UNCHANGED extractVars
  /\ UNCHANGED <<faults, tampered, vlog>>

\* createCompressionMetadata (its own stat failure is caught inside), return.
SvcMetadata ==
  /\ svc.pc = "metadata"
  /\ svc' = [svc EXCEPT !.pc = "returned"]
  /\ UNCHANGED <<processEnv, notification>> /\ UNCHANGED auxVars
  /\ UNCHANGED buildVars /\ UNCHANGED envVars /\ UNCHANGED extractVars
  /\ UNCHANGED <<faults, tampered, vlog>>

InitStaging ==
  /\ PipelineIdle
  /\ svc \in StagingCalls
  /\ processEnv = EmptyMap
  /\ notification = NoNotification
  /\ AuxIdle

NextStaging ==
  \/ SvcStat
  \/ SvcMkdirOutput
  \/ SvcMkdirTemp
  \/ SvcReadFile
  \/ SvcParse
  \/ SvcWriteFile
  \/ SvcCopyFileStream
  \/ SvcCompressDirectory
  \/ SvcRemove
  \/ SvcMetadata

SpecStaging == InitStaging /\ [][NextStaging]_vars

\* ------------------------------------------------------------------------
\* Environment variables of the 'started' notification
\* (IOUtils.getAllEnvironmentVariables, sendDeploymentStartedNotification)
\* ------------------------------------------------------------------------
\* Names and values are strings: sequences of one-character strings.
LowerCase == <<"a", "b", "c", "d", "e", "f", "g", "h", "i", "j", "k", "l", "m", "n", "o", "p", "q", "r", "s", "t", "u", "v", "w", "x", "y", "z">>
UpperCase == <<"A", "B", "C", "D", "E", "F", "G", "H", "I", "J", "K", "L", "M", "N", "O", "P", "Q", "R", "S", "T", "U", "V", "W", "X", "Y", "Z">>

\* this.sensitiveEnvKeys
sensitiveEnvKeys == {<<"P", "A", "S", "S", "W", "O", "R", "D">>, <<"S", "E", "C", "R", "E", "T">>, <<"K", "E", "Y">>, <<"T", "O", "K", "E", "N">>, <<"P", "R", "I", "V", "A", "T", "E">>, <<"C", "R", "E", "D", "E", "N", "T", "I", "A", "L">>, <<"A", "U", "T", "H">>}

REDACTED == <<"[", "R", "E", "D", "A", "C", "T", "E", "D", "]">>

\* The variable names the model draws process.env from: two that contain a
\* sensitive word (one in lower case, one as part of a longer word) and three
\* that do not (one a near miss).
EnvNames == {<<"P", "A", "T", "H">>, <<"C", "I">>, <<"K", "E", "_", "Y">>, <<"A", "U", "T", "H", "O", "R">>, <<"a", "p", "i", "_", "k", "e", "y">>}

\* The values: empty, blank, plain, padded, a bare label with and without
\* trailing or leading blanks.
EnvValues == {<<>>, <<SP>>, <<"a">>, <<"b", "c">>, <<SP, "a", SP>>, <<"A", "_", ":">>, <<"A", ":", SP>>, <<SP, "A", ":">>}

Environments == UNION {[N -> EnvValues] : N \in {M \in SUBSET EnvNames : Cardinality(M) <= MaxEnvVars}}

\* String.prototype.toUpperCase on the ASCII letters.
toUpperCase(s) == [k \in 1..Len(s) |-> IF \E j \in 1..26 : LowerCase[j] = s[k] THEN UpperCase[CHOOSE j \in 1..26 : LowerCase[j] = s[k]] ELSE s[k]]

\* String.prototype.includes
includes(s, lit) == \E i \in 1..Len(s) : HasLit(s, i, lit)

\* String.prototype.trim
trim(s) == IF \A k \in 1..Len(s) : s[k] \in SpaceCh THEN <<>> ELSE Slice(s, Run(s, 1, SpaceCh), CHOOSE j \in 1..Len(s) : s[j] \notin SpaceCh /\ (\A m \in (j + 1)..Len(s) : s[m] \in SpaceCh))

\* A sensitive-word test that compares the key as it is written.
isSensitiveKeyAsWritten(key) == \E sensitiveKey \in sensitiveEnvKeys : includes(key, sensitiveKey)

\* isSensitiveKey(key): the upper-cased key includes one of sensitiveEnvKeys.
isSensitiveKey(key) == \E sensitiveKey \in sensitiveEnvKeys : includes(toUpperCase(key), sensitiveKey)

\* /^[A-Z_]+:\s*$/.test(stringValue)
MatchesEmptyPattern(s) == \E j \in 1..Len(s) : /\ j >= 2 /\ s[j] = ":" /\ (\A k \in 1..(j - 1) : s[k] \in Range(UpperCase) \cup {"_"}) /\ (\A m \in (j + 1)..Len(s) : s[m] \in SpaceCh)

\* isEmptyOrInvalidValue(value) on a string (the values of process.env are
\* strings): blank after trim, or a bare 'LABEL:'.
isEmptyOrInvalidValue(value) == trim(value) = <<>> \/ MatchesEmptyPattern(value)

\* sanitizeEnvironmentValue(value): the trimmed string, '' when that is empty
\* or a bare label.
sanitizeEnvironmentValue(value) == IF isEmptyOrInvalidValue(trim(value)) THEN <<>> ELSE trim(value)

\* isSensitiveKey and isEmptyOrInvalidValue on the names and values the model
\* draws from, computed once.
SensitiveNames == {key \in EnvNames : isSensitiveKey(key)}
EmptyValues == {value \in EnvValues : isEmptyOrInvalidValue(value)}
Sanitized == [value \in EnvValues |-> sanitizeEnvironmentValue(value)]

\* The options of getAllEnvironmentVariables after destructuring with the
\* defaults; include = null is hasInclude = FALSE.
DefaultEnvOptions == [includeSensitive |-> FALSE, hasInclude |-> FALSE, include |-> {}, exclude |-> {}, excludeEmpty |-> TRUE]

\* The keys for which the forEach callback does not return early.
KeptKeys(env, options) == {key \in DOMAIN env : /\ (options.hasInclude => key \in options.include) /\ key \notin options.exclude /\ ~(options.excludeEmpty /\ env[key] \in EmptyValues)}

\* getAllEnvironmentVariables(options): envObject.
getAllEnvironmentVariables(env, options) == [key \in KeptKeys(env, options) |-> IF ~options.includeSensitive /\ key \in SensitiveNames THEN REDACTED ELSE Sanitized[env[key]]]

\* sendDeploymentStartedNotification: envs collected with
\* { includeSensitive: false } and sent with status 'started' (the artifacts
\* sent next to them do not depend on the environment).
SendDeploymentStartedNotification ==
  /\ notification.status = "none"
  /\ notification' = [status |-> "started", envs |-> getAllEnvironmentVariables(processEnv, [DefaultEnvOptions EXCEPT !.includeSensitive = FALSE])]
  /\ UNCHANGED <<svc, processEnv>> /\ UNCHANGED auxVars
  /\ UNCHANGED buildVars /\ UNCHANGED envVars /\ UNCHANGED extractVars
  /\ UNCHANGED <<faults, tampered, vlog>>

InitEnv ==
  /\ PipelineIdle
  /\ svc = NoCall
  /\ processEnv \in Environments
  /\ notification = NoNotification
  /\ AuxIdle

NextEnv == SendDeploymentStartedNotification

SpecEnv == InitEnv /\ [][NextEnv]_vars

\* ------------------------------------------------------------------------
\* DeploymentService.executeDeploymentPipeline and deployToNetwork
\* ------------------------------------------------------------------------
\* The pipeline is one async function; logger.group(title, fn) calls fn() and
\* returns its promise, which the for loop does not await.  Each call of the
\* callback therefore runs up to its first await and is then a task of its own
\* that the event loop resumes whenever the awaited operation settles.
ChainIds == {1, 137}

NetworkLists == UNION {[1..n -> ChainIds] : n \in 0..MaxNetworks}

\* A call: the network list, whether a deployCommand and a workingDirectory
\* were given, whether the networks carry a blockNumber.  rpc is the network
\* whose sandbox BUILDBEAR_RPC_URL / MNEMONIC were last exported for (0: none),
\* spawnRpc[i] the one in process.env when network i's command was spawned.
DeployCalls == {[networks |-> ns, cmd |-> c, wd |-> w, blockGiven |-> b, pc |-> "start", task |-> [i \in 1..Len(ns) |-> "notStarted"], rpc |-> 0, spawnRpc |-> [i \in 1..Len(ns) |-> 0], allDeployments |-> <<>>, sent |-> <<>>, first |-> "none", result |-> <<>>] : ns \in NetworkLists, c \in BOOLEAN, w \in BOOLEAN, b \in BOOLEAN}

\* A pipeline that tests for an empty list before it notifies.
EntryPcEmptyFirst(networks) == IF Len(networks) = 0 THEN "branch" ELSE "notifyStarted"

\* The first statement of the try block, whatever the network list.
EntryPc(networks) == "notifyStarted"

\* The first outside effect of the call, once there is one.
FirstEffect(d, effect) == IF d.first = "none" THEN effect ELSE d.first

\* buildBearApi.sendDeploymentNotification({ status, deployments }): the
\* payload is built from the array as it is when the call is made; a failure
\* to deliver is logged, never thrown.
Notify(d, status, deployments) == [d EXCEPT !.sent = Append(d.sent, [status |-> status, deployments |-> deployments]), !.first = FirstEffect(d, status)]

\* The callback's catch: push { chainId, status: 'failed' }.
TaskFailed(d, i) == [d EXCEPT !.task[i] = "done", !.allDeployments = Append(d.allDeployments, [chainId |-> d.networks[i], status |-> "failed"])]

\* The first await of deployToNetwork.
TaskEntry(d) == IF d.blockGiven THEN "createSandbox" ELSE "blockNumber"

DeployUnchanged == UNCHANGED archiveVars /\ UNCHANGED <<svc, processEnv, notification>> /\ UNCHANGED <<retry, stream, bbout>>

\* executeDeploymentPipeline is entered.
PipelineEnter ==
  /\ deploy.pc = "start"
  /\ deploy' = [deploy EXCEPT !.pc = EntryPc(deploy.networks)]
  /\ DeployUnchanged

\* await this.sendDeploymentStartedNotification(workingDirectory)
PipelineNotifyStarted ==
  /\ deploy.pc = "notifyStarted"
  /\ deploy' = [Notify(deploy, "started", <<>>) EXCEPT !.pc = "branch"]
  /\ DeployUnchanged

\* if (!networks || networks.length === 0): with a workingDirectory and a
\* deployCommand the command is run first, then allDeployments is returned.
PipelineBranch ==
  /\ deploy.pc = "branch"
  /\ deploy' = [deploy EXCEPT !.pc = IF Len(deploy.networks) > 0 THEN "loop" ELSE IF deploy.wd /\ deploy.cmd THEN "execute" ELSE "return"]
  /\ DeployUnchanged

\* await this.executeDeployment(deployCommand, workingDirectory) on the
\* no-network path: the command closes with some exit code, or spawning it
\* fails and the outer catch sends 'failed' and rethrows.
PipelineExecuteOnly ==
  /\ deploy.pc = "execute"
  /\ \E outcome \in {"close", "error"} :
       deploy' = IF outcome = "close" THEN [deploy EXCEPT !.pc = "return", !.first = FirstEffect(deploy, "spawn")]
                 ELSE [Notify([deploy EXCEPT !.first = FirstEffect(deploy, "spawn")], "failed", <<>>) EXCEPT !.pc = "threw"]
  /\ DeployUnchanged

\* return allDeployments (no-network path)
PipelineReturn ==
  /\ deploy.pc = "return"
  /\ deploy' = [deploy EXCEPT !.pc = "returned", !.result = deploy.allDeployments]
  /\ DeployUnchanged

\* for (const network of networks) logger.group(..., async () => {...}): every
\* callback is started and suspends at its first await; the loop then goes on
\* to sendDeploymentCompletedNotification(allDeployments) and awaits it.
PipelineLoop ==
  /\ deploy.pc = "loop"
  /\ deploy' = [Notify([deploy EXCEPT !.task = [i \in 1..Len(deploy.networks) |-> TaskEntry(deploy)]], "success", deploy.allDeployments) EXCEPT !.pc = "awaitCompleted"]
  /\ DeployUnchanged

\* The notification call settles: return allDeployments.  result is the array
\* as the caller finds it when the promise resolves.
PipelineCompleted ==
  /\ deploy.pc = "awaitCompleted"
  /\ deploy' = [deploy EXCEPT !.pc = "returned", !.result = deploy.allDeployments]
  /\ DeployUnchanged

\* await getLatestBlockNumber(parseInt(chainId)) settles.
TaskBlockNumber ==
  /\ \E i \in 1..Len(deploy.networks) :
       /\ deploy.task[i] = "blockNumber"
       /\ \E outcome \in {"ok", "fail"} :
            deploy' = IF outcome = "ok" THEN [deploy EXCEPT !.task[i] = "createSandbox"] ELSE TaskFailed(deploy, i)
  /\ DeployUnchanged

\* await buildBearApi.createSandbox(...) settles; on success the sandbox's
\* url and mnemonic are exported and checkSandboxReadiness is awaited.
TaskCreateSandbox ==
  /\ \E i \in 1..Len(deploy.networks) :
       /\ deploy.task[i] = "createSandbox"
       /\ \E outcome \in {"ok", "fail"} :
            deploy' = IF outcome = "ok" THEN [deploy EXCEPT !.task[i] = "checkReady", !.rpc = i] ELSE TaskFailed(deploy, i)
  /\ DeployUnchanged

\* await buildBearApi.checkSandboxReadiness(url) settles; a sandbox that is
\* not ready throws.  executeDeployment then spawns the command with a copy
\* of process.env, or goes straight to the artifacts without a command.
TaskCheckReady ==
  /\ \E i \in 1..Len(deploy.networks) :
       /\ deploy.task[i] = "checkReady"
       /\ \E outcome \in {"ready", "notReady"} :
            deploy' = IF outcome = "notReady" THEN TaskFailed(deploy, i)
                      ELSE IF deploy.cmd THEN [deploy EXCEPT !.task[i] = "running", !.spawnRpc[i] = deploy.rpc]
                      ELSE [deploy EXCEPT !.task[i] = "artifacts"]
  /\ DeployUnchanged

\* The child process closes (any exit code resolves) or emits 'error'.
TaskCommandExit ==
  /\ \E i \in 1..Len(deploy.networks) :
       /\ deploy.task[i] = "running"
       /\ \E outcome \in {"close", "error"} :
            deploy' = IF outcome = "close" THEN [deploy EXCEPT !.task[i] = "artifacts"] ELSE TaskFailed(deploy, i)
  /\ DeployUnchanged

\* await this.processArtifacts(...): both halves catch their own errors.
TaskArtifacts ==
  /\ \E i \in 1..Len(deploy.networks) :
       /\ deploy.task[i] = "artifacts"
       /\ deploy' = [deploy EXCEPT !.task[i] = "broadcast"]
  /\ DeployUnchanged

\* await this.processBroadcastDirectory(...) settles; deployToNetwork returns
\* its result, which the callback pushes, or the error is caught and a failed
\* entry pushed.
TaskBroadcast ==
  /\ \E i \in 1..Len(deploy.networks) :
       /\ deploy.task[i] = "broadcast"
       /\ \E outcome \in {"ok", "fail"} :
            deploy' = IF outcome = "ok" THEN [deploy EXCEPT !.task[i] = "done", !.allDeployments = Append(deploy.allDeployments, [chainId |-> deploy.networks[i], status |-> "success"])] ELSE TaskFailed(deploy, i)
  /\ DeployUnchanged

InitDeploy ==
  /\ PipelineIdle
  /\ svc = NoCall
  /\ processEnv = EmptyMap
  /\ notification = NoNotification
  /\ deploy \in DeployCalls
  /\ retry = Idle /\ stream = Idle /\ bbout = Idle

NextDeploy ==
  \/ PipelineEnter
  \/ PipelineNotifyStarted
  \/ PipelineBranch
  \/ PipelineExecuteOnly
  \/ PipelineReturn
  \/ PipelineLoop
  \/ PipelineCompleted
  \/ TaskBlockNumber
  \/ TaskCreateSandbox
  \/ TaskCheckReady
  \/ TaskCommandExit
  \/ TaskArtifacts
  \/ TaskBroadcast

SpecDeploy == InitDeploy /\ [][NextDeploy]_vars

\* ------------------------------------------------------------------------
\* Builds over plain text files
\* ------------------------------------------------------------------------
\* Text without any import or function pattern, and one file with a function
\* signature: a group of three such files derives an empty or a non-empty
\* dictionary.
TextContents == {<<"a">>, <<"b">>, <<"a", "b">>, FunSrc}

TextTrees == UNION {[P -> TextContents] : P \in {Q \in SUBSET Paths : Cardinality(Q) <= MaxFiles}}

\* compressDirectory is called on a directory of such files, with the default
\* options or with delta compression switched off.
InitText ==
  /\ sourceKind = "dir"
  /\ disk \in TextTrees
  /\ opts \in {DefaultOptions, NoDeltaOptions}
  /\ pc = "start"
  /\ outputDirCreated = FALSE
  /\ files = <<>>
  /\ idx = 1
  /\ fileMap = EmptyMap
  /\ keyOrder = <<>>
  /\ fileHashes = EmptyMap
  /\ fileGroups = [e \in Extensions |-> <<>>]
  /\ warned = {}
  /\ faults = 0
  /\ archive = NoArchive
  /\ cerror = "none"
  /\ tampered = ""
  /\ dpc = "idle"
  /\ dpos = 1
  /\ processedFiles = EmptyMap
  /\ outDisk = EmptyMap
  /\ derror = NoError
  /\ sourceEdit = NoEdit
  /\ builds = 1
  /\ vlog = <<>>
  /\ svc = NoCall
  /\ processEnv = EmptyMap
  /\ notification = NoNotification
  /\ AuxIdle

SpecText == InitText /\ [][Build]_vars

\* ------------------------------------------------------------------------
\* compressFile of the gzip revision: whole-file path and
\* compressLargeFileStream
\* ------------------------------------------------------------------------
StreamBytes == {"a", "b", "x80"}

StreamContents == UNION {[1..n -> StreamBytes] : n \in 1..MaxStreamLen}

\* zlib gzip / gunzip: a string is compressed as its UTF-8 encoding.
gzip(data) == [gz |-> BytesOf(data)]
gunzip(blob) == BufV(blob.gz)

NoRecord == [stored |-> FALSE]

\* The record of the whole-file path: content is what readFile(path, 'utf8')
\* returned.
WholeFileRecord(content) == [stored |-> TRUE, content |-> ToBase64(gzip(StrV(content))), originalHash |-> calculateHash(StrV(content)), originalSize |-> Len(content), isLargeFile |-> FALSE]

\* The record of the streaming path: the hash is the digest of the raw chunks,
\* the payload the gzip of the raw bytes, the size stats.size.
LargeFileRecord(bytes) == [stored |-> TRUE, content |-> ToBase64(gzip(BufV(bytes))), originalHash |-> Sha256(bytes), originalSize |-> Len(bytes), isLargeFile |-> TRUE]

\* validateFileCompression (gzip revision): the hash of the gunzipped buffer
\* against the stored hash.
gzValidateFileCompression(fileInfo) == calculateHash(gunzip(FromBase64(fileInfo.content))) = fileInfo.originalHash

\* validateCompressedArchive, per file: the hash of the source re-read as
\* utf8 against the stored hash.
gzArchiveHashMatches(fileInfo, bytes) == calculateHash(StrV(Utf8Decode(bytes))) = fileInfo.originalHash

\* decompressArchive, per file: the hash of the gunzipped buffer against the
\* stored hash ('Extraction validation failed for').
gzExtractionValid(fileInfo) == calculateHash(gunzip(FromBase64(fileInfo.content))) = fileInfo.originalHash

\* A compressFile call on a file of some content, above the 100 MB threshold
\* (large) or not.  The three streams of the streaming path are "none" until
\* created, then "open", "ended" or "errored"; uncaught records an 'error'
\* event emitted with no listener attached.
StreamCalls == {[content |-> c, large |-> l, pc |-> "stat", originalReadStream |-> "none", readStream |-> "none", gzipStream |-> "none", record |-> NoRecord, promise |-> "pending", uncaught |-> FALSE, validated |-> "none", extracted |-> "none"] : c \in StreamContents, l \in BOOLEAN}

StreamUnchanged == UNCHANGED archiveVars /\ UNCHANGED <<svc, processEnv, notification>> /\ UNCHANGED <<deploy, retry, bbout>>

\* fs.stat(filePath): on failure the call rejects; on success the whole-file
\* path reads the file, or the streaming path creates its streams and waits
\* for the hashing stream to end.
StreamStat ==
  /\ stream.pc = "stat"
  /\ \E outcome \in {"ok", "fail"} :
       stream' = IF outcome = "fail" THEN [stream EXCEPT !.pc = "settled", !.promise = "rejected"]
                 ELSE IF stream.large THEN [stream EXCEPT !.pc = "hashing", !.originalReadStream = "open", !.readStream = "open", !.gzipStream = "open"]
                 ELSE [stream EXCEPT !.pc = "whole"]
  /\ StreamUnchanged

\* Whole-file path: readFile utf8, calculateHash, gzip, store the record,
\* validateFileCompression; any throw is rethrown by compressFile.
StreamWholeFile ==
  /\ stream.pc = "whole"
  /\ \E outcome \in {"ok", "fail"} :
       stream' = IF outcome = "fail" THEN [stream EXCEPT !.pc = "settled", !.promise = "rejected"]
                 ELSE [stream EXCEPT !.pc = "settled", !.record = WholeFileRecord(Utf8Decode(stream.content)), !.promise = IF gzValidateFileCompression(WholeFileRecord(Utf8Decode(stream.content))) THEN "resolved" ELSE "rejected"]
  /\ StreamUnchanged

\* originalReadStream emits 'end': the digest resolves the inner promise,
\* readStream is piped into gzipStream and the handlers are attached.
StreamHashEnd ==
  /\ stream.pc = "hashing"
  /\ stream.originalReadStream = "open"
  /\ stream.readStream = "open"
  /\ stream' = [stream EXCEPT !.pc = "compressing", !.originalReadStream = "ended", !.record = [stored |-> FALSE, originalHash |-> LargeFileRecord(stream.content).originalHash]]
  /\ StreamUnchanged

\* originalReadStream emits 'error': it has no 'error' listener, its 'end'
\* never comes, and nothing settles the outer promise.
StreamHashError ==
  /\ stream.pc = "hashing"
  /\ stream.originalReadStream = "open"
  /\ stream' = [stream EXCEPT !.pc = "halted", !.originalReadStream = "errored", !.uncaught = TRUE]
  /\ StreamUnchanged

\* readStream emits 'error' while the hash is still awaited: the reject
\* handler is not attached yet, so the event is an uncaught exception.
StreamReadErrorEarly ==
  /\ stream.pc = "hashing"
  /\ stream.readStream = "open"
  /\ stream' = [stream EXCEPT !.pc = "halted", !.readStream = "errored", !.uncaught = TRUE]
  /\ StreamUnchanged

\* readStream.on('error', reject)
StreamReadError ==
  /\ stream.pc = "compressing"
  /\ stream.readStream = "open"
  /\ stream' = [stream EXCEPT !.pc = "settled", !.readStream = "errored", !.promise = "rejected"]
  /\ StreamUnchanged

\* gzipStream.on('error', reject)
StreamGzipError ==
  /\ stream.pc = "compressing"
  /\ stream.gzipStream = "open"
  /\ stream' = [stream EXCEPT !.pc = "settled", !.gzipStream = "errored", !.promise = "rejected"]
  /\ StreamUnchanged

\* gzipStream.on('end'): the record is stored and the promise resolved.
StreamGzipEnd ==
  /\ stream.pc = "compressing"
  /\ stream.readStream = "open"
  /\ stream.gzipStream = "open"
  /\ stream' = [stream EXCEPT !.pc = "settled", !.readStream = "ended", !.gzipStream = "ended", !.record = LargeFileRecord(stream.content), !.promise = "resolved"]
  /\ StreamUnchanged

\* validateCompressedArchive reaches the file's record.
StreamValidateArchive ==
  /\ stream.pc = "settled"
  /\ stream.promise = "resolved"
  /\ stream.validated = "none"
  /\ stream' = [stream EXCEPT !.validated = IF gzArchiveHashMatches(stream.record, stream.content) THEN "ok" ELSE "fail"]
  /\ StreamUnchanged

\* decompressArchive reaches the file's record.
StreamExtract ==
  /\ stream.pc = "settled"
  /\ stream.promise = "resolved"
  /\ stream.extracted = "none"
  /\ stream' = [stream EXCEPT !.extracted = IF gzExtractionValid(stream.record) THEN "ok" ELSE "fail"]
  /\ StreamUnchanged

InitStream ==
  /\ PipelineIdle
  /\ svc = NoCall
  /\ processEnv = EmptyMap
  /\ notification = NoNotification
  /\ stream \in StreamCalls
  /\ deploy = Idle /\ retry = Idle /\ bbout = Idle

NextStream ==
  \/ StreamStat
  \/ StreamWholeFile
  \/ StreamHashEnd
  \/ StreamHashError
  \/ StreamReadErrorEarly
  \/ StreamReadError
  \/ StreamGzipError
  \/ StreamGzipEnd
  \/ StreamValidateArchive
  \/ StreamExtract

SpecStream == InitStream /\ [][NextStream]_vars

\* ------------------------------------------------------------------------
\* withRetry (buildBearApi.js)
\* ------------------------------------------------------------------------
baseDelay == 1000
maxDelay == 10000

\* What a call of fn can throw: an error without a response (network) or one
\* carrying a response with an HTTP status.
NoResponse == [response |-> FALSE]

HttpError(status) == [response |-> TRUE, status |-> status]

RetryErrors == {NoResponse} \cup {HttpError(st) : st \in {400, 499, 500, 503}}

\* The default retryCondition, and two a caller can pass in its place.
defaultRetryCondition(error) == ~error.response \/ error.status >= 500

RetryConditions == {"default", "always", "never"}

retryCondition(name, error) == IF name = "default" THEN defaultRetryCondition(error) ELSE name = "always"

\* A loop that gives up only when the attempts are used up.
GivesUpOnlyWhenExhausted(attempt, maxRetries, cond, error) == attempt = maxRetries

\* if (attempt === maxRetries || !retryCondition(error)) break
GivesUp(attempt, maxRetries, cond, error) == attempt = maxRetries \/ ~retryCondition(cond, error)

Pow2(n) == IF n = 0 THEN 1 ELSE IF n = 1 THEN 2 ELSE IF n = 2 THEN 4 ELSE IF n = 3 THEN 8 ELSE 16

Min(a, b) == IF a < b THEN a ELSE b

\* Math.random() * 1000 is in [0, 1000): its two ends.
Jitters == {0, 999}

RetryDelay(attempt, jitter) == Min(baseDelay * Pow2(attempt) + jitter, maxDelay)

\* A withRetry call: calls lists what each call of fn did, in order (a value
\* or an error); delays the timers waited for.
RetryCalls == {[pc |-> "call", maxRetries |-> n, cond |-> c, attempt |-> 0, calls |-> <<>>, delays |-> <<>>, lastError |-> "undefined", outcome |-> "none"] : n \in 0..MaxRetries, c \in RetryConditions}

RetryUnchanged == UNCHANGED archiveVars /\ UNCHANGED <<svc, processEnv, notification>> /\ UNCHANGED <<deploy, stream, bbout>>

\* return await fn(): fn resolves; its value is returned at once.
RetryCallSucceeds ==
  /\ retry.pc = "call"
  /\ retry' = [retry EXCEPT !.pc = "returned", !.calls = Append(@, [ok |-> TRUE, value |-> Len(retry.calls) + 1]), !.outcome = [returned |-> Len(retry.calls) + 1]]
  /\ RetryUnchanged

\* fn rejects: the error is remembered; the loop breaks and throws it, or goes
\* on to the timer.
RetryCallFails ==
  /\ retry.pc = "call"
  /\ \E error \in RetryErrors :
       retry' = [retry EXCEPT !.calls = Append(@, [ok |-> FALSE, error |-> error]), !.lastError = [call |-> Len(retry.calls) + 1, error |-> error], !.pc = IF GivesUp(retry.attempt, retry.maxRetries, retry.cond, error) THEN "thrown" ELSE "wait", !.outcome = IF GivesUp(retry.attempt, retry.maxRetries, retry.cond, error) THEN [thrown |-> [call |-> Len(retry.calls) + 1, error |-> error]] ELSE @]
  /\ RetryUnchanged

\* await new Promise(setTimeout(resolve, delay)), then attempt++ and the loop
\* test attempt <= maxRetries; past it, throw lastError.
RetryWait ==
  /\ retry.pc = "wait"
  /\ \E jitter \in Jitters :
       retry' = [retry EXCEPT !.delays = Append(@, RetryDelay(retry.attempt, jitter)), !.attempt = @ + 1, !.pc = IF retry.attempt + 1 <= retry.maxRetries THEN "call" ELSE "thrown", !.outcome = IF retry.attempt + 1 <= retry.maxRetries THEN @ ELSE [thrown |-> retry.lastError]]
  /\ RetryUnchanged

InitRetry ==
  /\ PipelineIdle
  /\ svc = NoCall
  /\ processEnv = EmptyMap
  /\ notification = NoNotification
  /\ retry \in RetryCalls
  /\ deploy = Idle /\ stream = Idle /\ bbout = Idle

NextRetry ==
  \/ RetryCallSucceeds
  \/ RetryCallFails
  \/ RetryWait

SpecRetry == InitRetry /\ [][NextRetry]_vars

\* ------------------------------------------------------------------------
\* compressBboutFile (gzip revision): two calls and the one staging
\* directory os.tmpdir()/temp-bbout-file
\* ------------------------------------------------------------------------
BboutCallers == {1, 2}

\* path.basename(sourceFile) of each caller's source file, and of a file an
\* earlier call left in the staging directory.
Basename(i) == IF i = 1 THEN "one.json" ELSE "two.json"

LeftoverFile == "old.json"

NoDir == [exists |-> FALSE, files |-> {}]

BboutStart == [pc |-> "mkdir", files |-> {}, fileMap |-> {}, failure |-> "", result |-> "none"]

\* The staging directory before the calls: absent, or left behind with a
\* file in it.
BboutStates == {[pc |-> "running", dir |-> d, call |-> [i \in BboutCallers |-> BboutStart]] : d \in {NoDir, [exists |-> TRUE, files |-> {LeftoverFile}]}}

BboutUnchanged == UNCHANGED archiveVars /\ UNCHANGED <<svc, processEnv, notification>> /\ UNCHANGED <<deploy, retry, stream>>

\* compressDirectory threw: the catch of compressBboutFile removes the staging
\* directory next and rethrows.
BboutFailed(c, msg) == [c EXCEPT !.pc = "rm", !.failure = msg]

\* await fs.mkdir(tempDir, { recursive: true })
BboutMkdir(i) ==
  /\ bbout.pc = "running"
  /\ bbout.call[i].pc = "mkdir"
  /\ bbout' = [bbout EXCEPT !.dir.exists = TRUE, !.call[i].pc = "read"]
  /\ BboutUnchanged

\* await fs.readFile(sourceFile, 'utf8')
BboutReadSource(i) ==
  /\ bbout.pc = "running"
  /\ bbout.call[i].pc = "read"
  /\ bbout' = [bbout EXCEPT !.call[i].pc = "write"]
  /\ BboutUnchanged

\* await fs.writeFile(tempFilePath, content): outside the try, so ENOENT on a
\* removed directory rejects the call at once.
BboutWriteFile(i) ==
  /\ bbout.pc = "running"
  /\ bbout.call[i].pc = "write"
  /\ bbout' = IF bbout.dir.exists
              THEN [bbout EXCEPT !.dir.files = @ \cup {Basename(i)}, !.call[i].pc = "validateSource"]
              ELSE [bbout EXCEPT !.call[i].pc = "done", !.call[i].result = [error |-> "ENOENT"]]
  /\ BboutUnchanged

\* compressDirectory: validateSourceDirectory and ensureOutputDirectory
BboutValidateSource(i) ==
  /\ bbout.pc = "running"
  /\ bbout.call[i].pc = "validateSource"
  /\ bbout' = IF bbout.dir.exists
              THEN [bbout EXCEPT !.call[i].pc = "scan"]
              ELSE [bbout EXCEPT !.call[i] = BboutFailed(@, "Source directory not found")]
  /\ BboutUnchanged

\* getAllFiles(tempDir): the files now in the directory, or [] when readdir
\* fails.
BboutGetAllFiles(i) ==
  /\ bbout.pc = "running"
  /\ bbout.call[i].pc = "scan"
  /\ bbout' = [bbout EXCEPT !.call[i].pc = "compress", !.call[i].files = IF bbout.dir.exists THEN bbout.dir.files ELSE {}]
  /\ BboutUnchanged

\* compressFiles, createCompressionMetadata, createFinalArchive: a file that
\* can no longer be read is skipped with a warning.
BboutCompressFiles(i) ==
  /\ bbout.pc = "running"
  /\ bbout.call[i].pc = "compress"
  /\ bbout' = [bbout EXCEPT !.call[i].pc = "validateArchive", !.call[i].fileMap = bbout.call[i].files \cap bbout.dir.files]
  /\ BboutUnchanged

\* validateCompressedArchive over the scanned files: the count, then every
\* file re-read from the staging directory.
BboutValidateArchive(i) ==
  /\ bbout.pc = "running"
  /\ bbout.call[i].pc = "validateArchive"
  /\ bbout' = IF Cardinality(bbout.call[i].fileMap) # Cardinality(bbout.call[i].files)
              THEN [bbout EXCEPT !.call[i] = BboutFailed(@, "File count mismatch")]
              ELSE IF ~(bbout.call[i].files \subseteq bbout.dir.files)
              THEN [bbout EXCEPT !.call[i] = BboutFailed(@, "Archive validation failed")]
              ELSE [bbout EXCEPT !.call[i].pc = "rm"]
  /\ BboutUnchanged

\* await fs.rm(tempDir, { recursive: true, force: true }), then return the
\* archive or rethrow.
BboutRemove(i) ==
  /\ bbout.pc = "running"
  /\ bbout.call[i].pc = "rm"
  /\ bbout' = [bbout EXCEPT !.dir = NoDir, !.call[i].pc = "done", !.call[i].result = IF bbout.call[i].failure = "" THEN [archive |-> bbout.call[i].fileMap] ELSE [error |-> bbout.call[i].failure]]
  /\ BboutUnchanged

InitBbout ==
  /\ PipelineIdle
  /\ svc = NoCall
  /\ processEnv = EmptyMap
  /\ notification = NoNotification
  /\ bbout \in BboutStates
  /\ deploy = Idle /\ retry = Idle /\ stream = Idle

NextBbout ==
  \/ \E i \in BboutCallers : BboutMkdir(i)
  \/ \E i \in BboutCallers : BboutReadSource(i)
  \/ \E i \in BboutCallers : BboutWriteFile(i)
  \/ \E i \in BboutCallers : BboutValidateSource(i)
  \/ \E i \in BboutCallers : BboutGetAllFiles(i)
  \/ \E i \in BboutCallers : BboutCompressFiles(i)
  \/ \E i \in BboutCallers : BboutValidateArchive(i)
  \/ \E i \in BboutCallers : BboutRemove(i)

SpecBbout == InitBbout /\ [][NextBbout]_vars

\* ------------------------------------------------------------------------
\* Properties
\* ------------------------------------------------------------------------
Built == pc = "returned"
Extracted == dpc = "returned"
NoFault == faults = 0 /\ sourceKind = "dir"

\* C1: with delta compression disabled and no injected failure, the build and
\* the extraction both succeed, and every source file is extracted at its
\* relative path with the same byte-exact hash.
C1_RoundTripNoDelta ==
  (NoFault /\ ~opts.deltaCompression) =>
    /\ pc # "threw"
    /\ dpc # "threw"
    /\ Extracted =>
         \A p \in DOMAIN disk :
           p \in DOMAIN outDisk /\ Sha256(outDisk[p]) = Sha256(disk[p])

\* C2: with the default options and no injected failure, the build and the
\* extraction both succeed and every extracted file has the content of the
\* original file.
C2_RoundTripDefaults ==
  (NoFault /\ opts = DefaultOptions) =>
    /\ pc # "threw"
    /\ dpc # "threw"
    /\ Extracted => \A p \in DOMAIN disk : p \in DOMAIN outDisk /\ outDisk[p] = disk[p]

\* C3: in a written, unaltered archive every Standard or Dictionary record
\* carries a payload that decompresses (dictionary prefix stripped) to bytes
\* whose hash is the record's originalHash.
C3_PayloadMatchesHash ==
  (archive.written /\ tampered = "") =>
    \A k \in DOMAIN archive.files :
      archive.files[k].type \in {"standard", "dictionary"} =>
        calculateHash(BufV(PayloadBytes(archive.files[k])))
          = archive.files[k].originalHash

\* C4: in a written archive the referenceFile of every Duplicate record is a
\* key of the archive's files mapping.
C4_ReferenceResolves ==
  archive.written =>
    \A k \in DOMAIN archive.files :
      archive.files[k].type = "duplicate" =>
        archive.files[k].referenceFile \in DOMAIN archive.files

\* C5: with deduplication enabled and no injected failure, of two files with
\* identical bytes the one visited second has a Duplicate record referencing
\* the one visited first, and extraction succeeds with identical bytes at
\* both paths.
C5_Deduplication ==
  (NoFault /\ opts.deduplication /\ archive.written) =>
    \A i, j \in 1..Len(files) :
      (/\ i < j
       /\ disk[RelPath(i)] = disk[RelPath(j)]
       /\ \A h \in 1..(i - 1) : disk[RelPath(h)] # disk[RelPath(i)]) =>
        /\ RelPath(j) \in DOMAIN archive.files
        /\ archive.files[RelPath(j)].type = "duplicate"
        /\ archive.files[RelPath(j)].referenceFile = RelPath(i)
        /\ dpc # "threw"
        /\ Extracted =>
             /\ {RelPath(i), RelPath(j)} \subseteq DOMAIN outDisk
             /\ outDisk[RelPath(i)] = outDisk[RelPath(j)]

\* C6: a file is recorded as Duplicate of another only if the two files have
\* the same byte sequence.
C6_DuplicateImpliesSameBytes ==
  \A k \in DOMAIN fileMap :
    fileMap[k].type = "duplicate" => disk[k] = disk[fileMap[k].referenceFile]

\* C7: no Duplicate record references a path whose record is itself Duplicate,
\* and the dedup index never maps a hash to the path of a Duplicate record.
C7_NoDuplicateChains ==
  /\ \A k \in DOMAIN fileMap :
       (fileMap[k].type = "duplicate"
        /\ fileMap[k].referenceFile \in DOMAIN fileMap) =>
         fileMap[fileMap[k].referenceFile].type # "duplicate"
  /\ \A h \in DOMAIN fileHashes :
       fileHashes[h] \in DOMAIN fileMap => fileMap[fileHashes[h]].type # "duplicate"
  /\ archive.written =>
       \A k \in DOMAIN archive.files :
         (archive.files[k].type = "duplicate"
          /\ archive.files[k].referenceFile \in DOMAIN archive.files) =>
           archive.files[archive.files[k].referenceFile].type # "duplicate"

\* Witness for C7: an archive was written in which two Duplicate records
\* reference one Standard record.
C7_Witness ==
  /\ archive.written
  /\ \E k1, k2 \in DOMAIN archive.files :
       /\ k1 # k2
       /\ archive.files[k1].type = "duplicate"
       /\ archive.files[k2].type = "duplicate"
       /\ archive.files[k1].referenceFile = archive.files[k2].referenceFile
       /\ archive.files[k1].referenceFile \in DOMAIN archive.files
       /\ archive.files[archive.files[k1].referenceFile].type = "standard"

\* C8: with the default options a per-file compression failure is not fatal:
\* compressDirectory does not throw.
C8_PerFileFailureNotFatal ==
  (opts = DefaultOptions /\ warned # {}) => pc # "threw"

\* C9: whenever compressDirectory returns an archive path, the archive holds a
\* record for every regular file under the source root.
C9_NoSilentLoss ==
  Built => \A p \in DOMAIN disk : p \in DOMAIN archive.files

\* C10: once the payload of a Standard record was altered, decompressArchive
\* never returns outputDir, and the error it throws names that file.
C10_CorruptionDetected ==
  tampered # "" =>
    /\ dpc # "returned"
    /\ dpc = "threw" => derror.path = tampered

\* C11: for an archive built with deduplication enabled and left unaltered,
\* decompressArchive meets the reference of every Duplicate record after the
\* referenced path was extracted: it never throws 'Reference file not yet
\* processed'.
C11_ExtractionOrder ==
  (NoFault /\ opts.deduplication /\ tampered = "") =>
    derror.kind # "Reference file not yet processed"

CountDiffers == Cardinality(DOMAIN archive.files) # Len(files)
RecordMissing == \E i \in 1..Len(files) : RelPath(i) \notin DOMAIN archive.files
SourceBytes(edit, rel) == IF edit.path = rel THEN edit.bytes ELSE disk[rel]
HashDiffers(edit) ==
  \E i \in 1..Len(files) :
    /\ RelPath(i) \in DOMAIN archive.files
    /\ calculateHash(BufV(SourceBytes(edit, RelPath(i))))
         # archive.files[RelPath(i)].originalHash

RECURSIVE SizeOnDisk(_)
SizeOnDisk(S) ==
  IF S = {} THEN 0
  ELSE LET p == CHOOSE q \in S : TRUE IN Len(disk[p]) + SizeOnDisk(S \ {p})

\* C13: once compressDirectory has returned, the originalSize fields of all
\* records (Duplicate records included) add up to the total size in bytes of
\* the files under sourceRoot, and metadata.totalOriginalSize is that total.
C13_SizeAccounting ==
  Built =>
    /\ SumOver(archive.files, archive.order, "originalSize")
         = SizeOnDisk(DOMAIN disk)
    /\ archive.metadata.totalOriginalSize = SizeOnDisk(DOMAIN disk)

\* C14: in every written archive metadata.fileCount is the number of entries
\* of the files mapping and metadata.totalCompressedSize is the sum of the
\* compressed sizes of the stored payloads.
C14_MetadataAggregates ==
  archive.written =>
    /\ archive.metadata.fileCount = Cardinality(DOMAIN archive.files)
    /\ archive.metadata.totalCompressedSize
         = SumOver(archive.files,
                   SelectSeq(archive.order,
                             LAMBDA k : archive.files[k].type # "duplicate"),
                   "compressedSize")

\* C15: when sourceRoot is missing or is not a directory, compressDirectory
\* throws an error that says which, and nothing was done before: the output
\* directory is not created and no archive is written.
C15_SourceNotFound ==
  sourceKind # "dir" =>
    /\ pc \in {"start", "threw"}
    /\ ~outputDirCreated
    /\ ~archive.written
    /\ files = <<>> /\ fileMap = EmptyMap
    /\ pc = "threw" =>
         cerror = IF sourceKind = "missing"
                  THEN "Compression failed: Source directory not found"
                  ELSE "Compression failed: Source path is not a directory"

\* Witness for C15: compressDirectory threw on a path that is a regular file.
C15_Witness == sourceKind = "file" /\ pc = "threw"

\* C16: on an existing empty directory compressDirectory does not throw,
\* validation enabled or not; the archive it writes has an empty files mapping
\* and fileCount 0; decompressArchive of it succeeds and extracts no file.
C16_EmptyDirectory ==
  (sourceKind = "dir" /\ disk = EmptyMap) =>
    /\ pc # "threw"
    /\ archive.written =>
         /\ DOMAIN archive.files = {}
         /\ archive.metadata.fileCount = 0
    /\ dpc # "threw"
    /\ outDisk = EmptyMap

\* Witness for C16: the archive of an empty directory, built with validation
\* enabled, was extracted.
C16_Witness ==
  /\ sourceKind = "dir" /\ disk = EmptyMap
  /\ opts.validateAfterCompression
  /\ Extracted

VisitedPaths == {RelPath(i) : i \in 1..(idx - 1)}
\* Per content: the text handed to the compressor with delta compression
\* on and off, and the hash of the file.
OptimisedTextOf ==
  [c \in Contents |-> DataToCompress(StrV(Utf8Decode(c)), TRUE, TRUE).v]
PlainTextOf == [c \in Contents |-> Utf8Decode(c)]
HashOf == [c \in Contents |-> calculateHash(BufV(c))]
NormalisedText(p) ==
  IF opts.deltaCompression THEN OptimisedTextOf[disk[p]] ELSE PlainTextOf[disk[p]]

\* C18: in any sequence of builds on one instance the dedup index and the
\* extension groups hold only files visited by the current compressDirectory
\* call: every index entry maps the hash of a file of the current tree to that
\* file, every Duplicate record references a file of the current tree visited
\* in this call and with the same hash, every group element is the text of a
\* file visited in this call, and every stored dictionary is derived from
\* such a group.
C18_NoSharedState ==
  /\ \A h \in DOMAIN fileHashes :
       /\ fileHashes[h] \in VisitedPaths
       /\ h = HashOf[disk[fileHashes[h]]]
  /\ \A k \in DOMAIN fileMap :
       fileMap[k].type = "duplicate" =>
         /\ fileMap[k].referenceFile \in VisitedPaths \ {k}
         /\ HashOf[disk[fileMap[k].referenceFile]] = HashOf[disk[k]]
  /\ \A e \in Extensions : \A n \in 1..Len(fileGroups[e]) :
       \E p \in VisitedPaths :
         extname(p) = e /\ isTextFile(p) /\ fileGroups[e][n] = NormalisedText(p)
  /\ \A k \in DOMAIN fileMap :
       fileMap[k].type = "dictionary" =>
         \E m \in 1..Len(fileGroups[extname(k)]) :
           fileMap[k].dictionary
             = createDictionary(Slice(fileGroups[extname(k)], 1, m))

\* Witness for C18: a second build on the instance has stored a Duplicate
\* record and has pushed a file into an extension group.
C18_Witness ==
  /\ builds = 2
  /\ pc = "returned"
  /\ \E k \in DOMAIN fileMap : fileMap[k].type = "duplicate"
  /\ \E e \in Extensions : fileGroups[e] # <<>>

\* C19: when compressBboutFile, compressTestArtifacts or compressLargeFile has
\* returned or thrown, whichever step failed, the staging directory the call
\* created no longer exists.
C19_StagingRemoved == svc.pc \in {"returned", "threw"} => svc.tempDir = "absent"

\* The letters a and b are the same up to case.
SameLetter(a, b) == a = b \/ \E j \in 1..26 : {a, b} = {LowerCase[j], UpperCase[j]}

\* The name contains PASSWORD, SECRET, KEY, TOKEN, PRIVATE, CREDENTIAL or AUTH,
\* whatever the case of its letters.
NameIsSensitive(name) == \E w \in sensitiveEnvKeys : \E i \in 1..Len(name) : (i + Len(w) - 1 <= Len(name) /\ (\A k \in 1..Len(w) : SameLetter(name[i + k - 1], w[k])))

\* What the 'started' notification would carry had variable key the value v.
EnvsWith(key, v) == getAllEnvironmentVariables([processEnv EXCEPT ![key] = v], DefaultEnvOptions)

\* C20 (as stated): in the 'started' notification every sensitive variable that
\* is sent has the value '[REDACTED]', and every non-sensitive variable with a
\* non-empty (not even blank) value is sent with exactly that value.
C20_SentWithTheirValue == notification.status = "started" => \A key \in DOMAIN processEnv : IF NameIsSensitive(key) THEN (key \in DOMAIN notification.envs => notification.envs[key] = REDACTED) ELSE (trim(processEnv[key]) # <<>> => key \in DOMAIN notification.envs /\ notification.envs[key] = processEnv[key])

\* C20 (amended): in the 'started' notification every sensitive variable that
\* is sent has the value '[REDACTED]', another real value of it changes no
\* value in the notification and no other variable's presence, and every non-sensitive variable whose value
\* trimmed of surrounding whitespace is neither empty nor a bare 'LABEL:' is
\* sent with that trimmed value.
C20_RedactedByDefault == notification.status = "started" => \A key \in DOMAIN processEnv : IF NameIsSensitive(key) THEN (key \in DOMAIN notification.envs => notification.envs[key] = REDACTED) /\ (\A v \in EnvValues : \A other \in DOMAIN EnvsWith(key, v) : (other # key => other \in DOMAIN notification.envs) /\ (other \in DOMAIN notification.envs => EnvsWith(key, v)[other] = notification.envs[other])) ELSE (trim(processEnv[key]) # <<>> /\ ~MatchesEmptyPattern(trim(processEnv[key])) => key \in DOMAIN notification.envs /\ notification.envs[key] = trim(processEnv[key]))

\* A notification was sent from an environment holding a secret under a
\* lower-case name, redacted, and a padded non-sensitive value, sent trimmed.
C20_Witness == /\ notification.status = "started" /\ <<"a", "p", "i", "_", "k", "e", "y">> \in DOMAIN notification.envs /\ processEnv[<<"a", "p", "i", "_", "k", "e", "y">>] = <<"b", "c">> /\ <<"P", "A", "T", "H">> \in DOMAIN notification.envs /\ processEnv[<<"P", "A", "T", "H">>] = <<SP, "a", SP>> /\ notification.envs[<<"P", "A", "T", "H">>] = <<"a">>

\* C21: called with an empty network list, executeDeploymentPipeline sends the
\* 'started' notification before it does anything else, and the array it
\* returns is empty.
C21_EmptyNetworkList == deploy.pc # "idle" /\ Len(deploy.networks) = 0 => /\ deploy.first \in {"none", "started"} /\ (deploy.pc \in {"execute", "return", "returned", "threw"} => deploy.first = "started" /\ deploy.sent[1].status = "started") /\ (deploy.pc = "returned" => deploy.result = <<>> /\ \A k \in 1..Len(deploy.sent) : deploy.sent[k].status = "started")

\* A call without networks but with a command has run it and returned.
C21_Witness == deploy.pc = "returned" /\ Len(deploy.networks) = 0 /\ deploy.cmd /\ deploy.wd /\ deploy.result = <<>> /\ Len(deploy.sent) = 1

\* Every deployToNetwork call of the pipeline has returned or thrown.
AllTasksDone == \A i \in 1..Len(deploy.networks) : deploy.task[i] = "done"

\* The number of entries of deployments for the network at position i's chain.
EntriesFor(deployments, chainId) == Cardinality({k \in 1..Len(deployments) : deployments[k].chainId = chainId})

\* deployments holds exactly one entry per network of the list.
OneEntryPerNetwork(deployments) == Len(deployments) = Len(deploy.networks) /\ \A c \in ChainIds : EntriesFor(deployments, c) = Cardinality({i \in 1..Len(deploy.networks) : deploy.networks[i] = c})

\* C22: with a non-empty network list the 'success' notification is sent, and
\* the call returns, only after deployToNetwork has finished for every
\* network; the deployments sent and returned hold one entry per network.
C22_CompletedAfterAllNetworks == deploy.pc # "idle" /\ Len(deploy.networks) > 0 => /\ (\A k \in 1..Len(deploy.sent) : deploy.sent[k].status = "success" => AllTasksDone /\ OneEntryPerNetwork(deploy.sent[k].deployments)) /\ (deploy.pc = "returned" => AllTasksDone /\ OneEntryPerNetwork(deploy.result))

\* C23: networks are deployed one at a time: a network's deployToNetwork has
\* not started while an earlier one is unfinished, and while a deploy
\* command runs the exported sandbox variables are those of its own network,
\* as they were when it was spawned.
C23_OneNetworkAtATime == deploy.pc # "idle" => \A i \in 1..Len(deploy.networks) : /\ (deploy.task[i] # "notStarted" => \A j \in 1..(i - 1) : deploy.task[j] = "done") /\ (deploy.task[i] = "running" => deploy.rpc = i /\ deploy.spawnRpc[i] = i)

\* The file compressFiles is about to hand to compressFile.
NextPath == RelPath(idx)
NextIsText == isTextFile(NextPath)
NextData == DataToCompress(IF NextIsText THEN StrV(Utf8Decode(disk[NextPath])) ELSE BufV(disk[NextPath]), NextIsText, opts.deltaCompression)

\* The record that file gets when the dictionary payload is delta bytes longer
\* than the plain one.
NextRecord(delta) == ChooseRecord(lzmaCompress(NextData, NominalLength(NextData)), opts.deltaCompression /\ NextIsText, tryDictionaryCompression(NextData.v, NextPath, fileGroups, opts.algorithm, TRUE, NominalLength(NextData) + delta), calculateHash(BufV(disk[NextPath])), Len(disk[NextPath]))

\* The plain compressed size of the content a dictionary record carries.
PlainSizeOf(fileInfo) == LzmaHeaderLen + Len(FromBase64(fileInfo.content).lz) - Len(Utf8Encode(fileInfo.dictionary)) - 1

\* C24: with delta compression on, a text file's record is Dictionary exactly
\* when its extension group holds at least 3 members counting the file itself
\* and the dictionary payload is strictly smaller than the plain one; in every
\* other case it is Standard, so no Dictionary record exists while a group
\* has fewer than 3 members.
C24_RecordKind == /\ (pc = "compressing" /\ idx <= Len(files) => \A delta \in (0 - MaxLenDelta)..MaxLenDelta : NextRecord(delta).type = (IF opts.deltaCompression /\ NextIsText /\ Len(fileGroups[extname(NextPath)]) + 1 >= 3 /\ delta < 0 THEN "dictionary" ELSE "standard")) /\ (\A q \in DOMAIN fileMap : fileMap[q].type = "dictionary" => opts.deltaCompression /\ isTextFile(q) /\ Len(fileGroups[extname(q)]) >= 3 /\ fileMap[q].compressedSize < PlainSizeOf(fileMap[q]))

\* The third text file of a group got a Dictionary record and the first two
\* Standard ones.
C24_Witness == /\ pc = "returned" /\ Cardinality({q \in DOMAIN fileMap : fileMap[q].type = "dictionary"}) = 1 /\ Cardinality({q \in DOMAIN fileMap : fileMap[q].type = "standard"}) = 2

\* The content that was handed to the compressor for a dictionary record: the
\* compressed text without the dictionary and the newline put in front of it.
CompressorInput(fileInfo) == Slice(FromBase64(fileInfo.content).lz, Len(Utf8Encode(fileInfo.dictionary)) + 2, Len(FromBase64(fileInfo.content).lz))

\* C25: for every Dictionary record the builder emits, also one with an empty
\* dictionary, validation and extraction strip exactly the stored dictionary
\* and the newline after it, leaving the content handed to the compressor.
C25_PrefixStripped == \A q \in DOMAIN fileMap : fileMap[q].type = "dictionary" => PayloadBytes(fileMap[q]) = CompressorInput(fileMap[q])

\* What tryDictionaryCompression returns for the next file.
NextAttempt(compressOk, delta) == tryDictionaryCompression(NextData.v, NextPath, fileGroups, opts.algorithm, compressOk, NominalLength(NextData) + delta)

\* The plain Standard record of the next file.
NextStandard == StandardRecord(lzmaCompress(NextData, NominalLength(NextData)), calculateHash(BufV(disk[NextPath])), Len(disk[NextPath]))

\* C26: with fewer than 3 members in the extension group, or when deriving the
\* dictionary or compressing with it fails, the attempt yields nothing and
\* the file gets its plain Standard record; a compressFile call that made the
\* attempt always stored a record for the file.
C26_BestEffort == /\ [](pc = "compressing" /\ idx <= Len(files) => \A delta \in (0 - MaxLenDelta)..MaxLenDelta : /\ (Len(fileGroups[extname(NextPath)]) + 1 < 3 => NextAttempt(TRUE, delta).isNull) /\ NextAttempt(FALSE, delta).isNull /\ ChooseRecord(lzmaCompress(NextData, NominalLength(NextData)), TRUE, NextAttempt(FALSE, delta), calculateHash(BufV(disk[NextPath])), Len(disk[NextPath])) = NextStandard) /\ [][pc = "compressing" /\ fileGroups' # fileGroups => NextPath \in DOMAIN fileMap' /\ (Len(fileGroups'[extname(NextPath)]) < 3 \/ faults' > faults => fileMap'[NextPath] = NextStandard)]_vars

\* The dictionary attempt for the third text file failed, and all three files
\* have Standard records.
C26_Witness == /\ faults = 1 /\ Len(fileGroups[".txt"]) = 3 /\ \A q \in {"a.txt", "b.txt", "sub/c.txt"} : q \in DOMAIN fileMap /\ fileMap[q].type = "standard"

\* C27: the hash the streaming path stores for a file is the hash the
\* whole-file path stores for the same content, so the file's record passes
\* the archive validator and the extractor exactly when the record of a
\* small file with that content does.
C27_SameHashSemantics == stream.pc = "settled" /\ stream.large /\ stream.record.stored => /\ stream.record.originalHash = WholeFileRecord(Utf8Decode(stream.content)).originalHash /\ (stream.validated # "none" => (stream.validated = "ok") = gzArchiveHashMatches(WholeFileRecord(Utf8Decode(stream.content)), stream.content)) /\ (stream.extracted # "none" => (stream.extracted = "ok") = gzExtractionValid(WholeFileRecord(Utf8Decode(stream.content))))

\* No stream of the call can emit another event.
StreamsQuiet == stream.pc # "idle" /\ stream.pc \in {"settled", "halted"}

\* C29: whatever the outcome of the two read streams and the gzip stream, once
\* none of them can emit anything more the promise returned by
\* compressLargeFileStream is resolved or rejected.
C29_AlwaysSettles == StreamsQuiet => stream.promise # "pending"

\* The calls of fn made so far, all but the last.
EarlierCalls == 1..(Len(retry.calls) - 1)

RetryOver == retry.pc # "idle" /\ retry.pc \in {"returned", "thrown"}

LastCall == retry.calls[Len(retry.calls)]

RetryInvariant ==
  /\ Len(retry.calls) <= retry.maxRetries + 1
  /\ \A k \in EarlierCalls : ~retry.calls[k].ok /\ retryCondition(retry.cond, retry.calls[k].error)
  /\ Len(retry.delays) = IF retry.pc = "call" THEN Len(retry.calls) ELSE Len(retry.calls) - 1
  /\ retry.pc = "wait" => ~LastCall.ok /\ retryCondition(retry.cond, LastCall.error)
  /\ retry.pc = "returned" => LastCall.ok /\ retry.outcome = [returned |-> LastCall.value]
  /\ retry.pc = "thrown" =>
       /\ ~LastCall.ok
       /\ retry.outcome = [thrown |-> [call |-> Len(retry.calls), error |-> LastCall.error]]
       /\ Len(retry.calls) = retry.maxRetries + 1 \/ ~retryCondition(retry.cond, LastCall.error)

\* C28: withRetry calls fn at most maxRetries + 1 times; every call but the
\* last failed with an error retryCondition accepts and was followed by one
\* timer; a returned call returns the value of its last (first successful)
\* call; a throwing call throws the error of its last call, which either
\* fails retryCondition or is call number maxRetries + 1; and nothing is called
\* or waited for after the call is over.
C28_WithRetry == [](retry.pc # "idle" => RetryInvariant) /\ [][RetryOver => retry' = retry]_vars

\* A call under the default condition that stopped on a 4xx error after a
\* retried failure, with attempts to spare.
C28_Witness == retry.pc = "thrown" /\ retry.cond = "default" /\ Len(retry.calls) = 2 /\ retry.maxRetries = 3 /\ retry.calls[2].error = HttpError(499) /\ Len(retry.delays) = 1

\* C30: every compressBboutFile call that is over returned an archive with a
\* record for its own source file and for no other file, whatever the other
\* call did to the staging directory and whatever was left in it.
C30_Isolated == bbout.pc = "running" => \A i \in BboutCallers : bbout.call[i].pc = "done" => bbout.call[i].result = [archive |-> {Basename(i)}]

====
